---- MODULE Spec2Model ----
(***************************************************************************)
(* Bill ingestion pipeline and token authorisation of the SmartLedger      *)
(* service: the SQLite store of src/bills/db.py (tables bills and users)   *)
(* and the HTTP handlers of src/interface/app.py.                          *)
(*                                                                         *)
(* Every call of a db.py function is one atomic store operation (it opens  *)
(* its own connection, runs its statements and commits); a handler is a    *)
(* sequence of such operations, and handlers of different requests         *)
(* interleave between them.                                                *)
(*                                                                         *)
(* Text that is not ASCII in the source is written with an ASCII gloss:    *)
(* the twelve CATEGORIES in list order, the two nw_type labels, and the    *)
(* full-width yen sign "U+FFE5".                                           *)
(***************************************************************************)
EXTENDS Integers, Sequences, FiniteSets, TLC

(***************************************************************************)
(* Bounds of the model.                                                    *)
(***************************************************************************)
\* request slots: how many requests can be in flight at once
NumReq == 2
\* how many tokens generate_token hands out in one behaviour
MaxTokens == 2
\* how many user ids generate_user_id hands out in one behaviour
MaxUuids == 1
\* how many times the clock moves in one behaviour
MaxClock == 2

(***************************************************************************)
(* Values.                                                                 *)
(***************************************************************************)
\* Python None / SQL NULL in a text column, and a key missing from a dict
NULL == "<null>"
MISSING == "<missing>"

\* services/baidu_qwen.py CATEGORIES, in list order
CATEGORIES ==
    << "dining", "shopping", "transport", "housing", "leisure", "health",
       "study_office", "pets", "mother_baby", "fund_transfer",
       "insurance_finance", "other_expense" >>

InCategories_AcceptsAll(c) == c = c

InCategories(c) == \E i \in 1..Len(CATEGORIES) : CATEGORIES[i] = c

\* the default category of the upload handlers, the last entry of CATEGORIES
DefaultCategory == "other_expense"

\* the two labels manual_bill accepts for nw_type
NwTypes == {"basic_expense", "fun_expense"}

\* the literal verify_token accepts without reading the store, the token
\* column's NULL, and the identity the literal maps to
HARDCODED_TOKEN == 0
NullToken == -1
HardcodedUserId == "token"

\* the lifetime login asks save_user_token for
TokenDays == 30

\* the clock counts ticks; strftime("%Y-%m-%d %H:%M:%S") drops what is below
\* a second
TicksPerSec == 2
SecPerDay == 86400
TicksPerDay == TicksPerSec * SecPerDay

(***************************************************************************)
(* Text values whose content the code parses: a date or a timestamp as     *)
(* strftime writes it, other text, or NULL.                                *)
(***************************************************************************)
\* strftime("%Y-%m-%d") of a clock value: the day, nothing below it
DateStr(t) == [k |-> "date", v |-> t \div TicksPerDay]
\* strftime("%Y-%m-%d %H:%M:%S") of a clock value: the second, nothing below
TimestampStr(t) == [k |-> "ts", v |-> t \div TicksPerSec]
\* a string that is neither (v = 0 is the empty string)
Text(n) == [k |-> "text", v |-> n]
EmptyText == Text(0)
NullText == [k |-> "null", v |-> 0]

\* Python truthiness of an optional string
Truthy(x) == x /= NullText /\ x /= EmptyText
TruthyStr(s) == s /= NULL /\ s /= MISSING /\ s /= ""

\* datetime.strptime(s, "%Y-%m-%d") succeeds
ParsesAsDate(x) == x.k = "date"
\* datetime.strptime(s, "%Y-%m-%d %H:%M:%S"): the clock value, or -1 for
\* ValueError
ParseTimestamp(x) == IF x.k = "ts" THEN x.v * TicksPerSec ELSE -1

(***************************************************************************)
(* float() and round(x, 2) on amount literals.  A literal is a sequence of *)
(* one-character strings.  A double is kept as the decimal it was read     *)
(* from: thousandths m, whether non-zero digits follow the third decimal   *)
(* (sticky), its sign, and its class.                                      *)
(***************************************************************************)
DigitChars == {"0", "1", "2", "3", "4", "5", "6", "7", "8", "9"}

DigitVal(c) ==
    CASE c = "0" -> 0 [] c = "1" -> 1 [] c = "2" -> 2 [] c = "3" -> 3
      [] c = "4" -> 4 [] c = "5" -> 5 [] c = "6" -> 6 [] c = "7" -> 7
      [] c = "8" -> 8 [] c = "9" -> 9

\* the character of a digit
DigitOf(n) == CHOOSE c \in DigitChars : DigitVal(c) = n

RECURSIVE RemoveAll(_, _)
\* str.replace(p, ""): every occurrence of p, left to right
RemoveAll(s, p) ==
    IF Len(s) < Len(p) THEN s
    ELSE IF SubSeq(s, 1, Len(p)) = p
         THEN RemoveAll(SubSeq(s, Len(p) + 1, Len(s)), p)
         ELSE <<Head(s)>> \o RemoveAll(Tail(s), p)

RECURSIVE LStrip(_)
LStrip(s) == IF s /= <<>> /\ Head(s) = " " THEN LStrip(Tail(s)) ELSE s

RECURSIVE RStrip(_)
RStrip(s) ==
    IF s /= <<>> /\ s[Len(s)] = " " THEN RStrip(SubSeq(s, 1, Len(s) - 1)) ELSE s

\* str.strip()
Strip(s) == LStrip(RStrip(s))

RECURSIVE DigitsValue(_)
\* the number a run of digits denotes
DigitsValue(s) ==
    IF s = <<>> THEN 0 ELSE DigitsValue(SubSeq(s, 1, Len(s) - 1)) * 10 + DigitVal(s[Len(s)])

AllDigits(s) == \A i \in 1..Len(s) : s[i] \in DigitChars

\* index of the first ".", or 0
DotIndex(s) ==
    IF \E i \in 1..Len(s) : s[i] = "."
    THEN CHOOSE i \in 1..Len(s) : s[i] = "." /\ \A j \in 1..(i - 1) : s[j] /= "."
    ELSE 0

NotAFloat == [ok |-> FALSE, cls |-> "fin", neg |-> FALSE, m |-> 0, sticky |-> FALSE]

\* digits [. digits] with at least one digit
UnsignedFloat(b, neg) ==
    LET d == DotIndex(b)
        ip == IF d = 0 THEN b ELSE SubSeq(b, 1, d - 1)
        fp == IF d = 0 THEN <<>> ELSE SubSeq(b, d + 1, Len(b))
        f3 == SubSeq(fp \o <<"0", "0", "0">>, 1, 3)
        rest == IF Len(fp) > 3 THEN SubSeq(fp, 4, Len(fp)) ELSE <<>>
    IN  IF AllDigits(ip) /\ AllDigits(fp) /\ Len(ip) + Len(fp) > 0
        THEN [ok |-> TRUE, cls |-> "fin", neg |-> neg,
              m |-> DigitsValue(ip) * 1000 + DigitsValue(f3),
              sticky |-> \E i \in 1..Len(rest) : rest[i] /= "0"]
        ELSE NotAFloat

\* float(s) for a literal over digits, ".", sign, blanks, "inf" and "nan";
\* ok = FALSE is ValueError
ParseFloat(s) ==
    LET t == Strip(s)
        signed == t /= <<>> /\ Head(t) \in {"+", "-"}
        neg == t /= <<>> /\ Head(t) = "-"
        b == IF signed THEN Tail(t) ELSE t
    IN  IF b = <<"i", "n", "f">>
        THEN [ok |-> TRUE, cls |-> "inf", neg |-> neg, m |-> 0, sticky |-> FALSE]
        ELSE IF b = <<"n", "a", "n">>
        THEN [ok |-> TRUE, cls |-> "nan", neg |-> neg, m |-> 0, sticky |-> FALSE]
        ELSE UnsignedFloat(b, neg)

RECURSIVE Pow2Mod1000(_)
Pow2Mod1000(k) == IF k = 0 THEN 1 ELSE (2 * Pow2Mod1000(k - 1)) % 1000

RECURSIVE ShiftUp(_, _)
\* the least j with m * 2^j >= 1000 (m in 1..999)
ShiftUp(m, j) == IF m >= 1000 THEN j ELSE ShiftUp(2 * m, j + 1)

RECURSIVE ShiftDown(_, _)
\* the greatest e with 1000 * 2^e <= m (m >= 1000)
ShiftDown(m, e) == IF m < 2000 THEN e ELSE ShiftDown(m \div 2, e + 1)

\* the binary exponent of m/1000
Exponent(m) == IF m >= 1000 THEN ShiftDown(m, 0) ELSE 0 - ShiftUp(m, 0)

\* the double nearest to m/1000 against m/1000 itself: -1 below, 0 equal,
\* 1 above (53 significant bits, round to nearest)
DoubleSide(m) ==
    IF m = 0 THEN 0
    ELSE LET r == ((m % 1000) * Pow2Mod1000(52 - Exponent(m))) % 1000
         IN  IF r = 0 THEN 0 ELSE IF r < 500 THEN -1 ELSE 1

\* round(x, 2) of a finite double x >= 0 read from m thousandths: hundredths.
\* Python rounds the double's exact value, half to even.
RoundCents(m, sticky) ==
    LET q == m \div 10
        r == m % 10
        side == IF sticky THEN 1 ELSE DoubleSide(m)
    IN  IF r < 5 THEN q
        ELSE IF r > 5 THEN q + 1
        ELSE IF side > 0 THEN q + 1
        ELSE IF side < 0 THEN q
        ELSE IF q % 2 = 0 THEN q ELSE q + 1

\* an amount as the bills table holds it (column amount REAL): hundredths
\* c of a finite value, an infinity, or NULL (sqlite3 stores nan as NULL)
FinAmount(c) == [cls |-> "fin", c |-> c]
InfAmount(neg) == [cls |-> "inf", c |-> IF neg THEN -1 ELSE 1]
NullAmount == [cls |-> "null", c |-> 0]

\* round(num, 2) as the value save_bill then binds to the amount column
Round2(f) ==
    CASE f.cls = "inf" -> InfAmount(f.neg)
      [] f.cls = "nan" -> NullAmount
      [] OTHER -> FinAmount((IF f.neg THEN -1 ELSE 1) * RoundCents(f.m, f.sticky))

\* num <= 0 on a double
NonPositive(f) ==
    CASE f.cls = "inf" -> f.neg
      [] f.cls = "nan" -> FALSE
      [] OTHER -> f.neg \/ (f.m = 0 /\ ~f.sticky)

\* a chain that forgets the currency markers
StripMarkers_CommasOnly(s) == RemoveAll(s, <<",">>)
\* .replace(",", "").replace(yen, "").replace("RMB", "")
StripMarkers(s) ==
    RemoveAll(RemoveAll(RemoveAll(s, <<",">>), <<"U+FFE5">>), <<"R", "M", "B">>)


(***************************************************************************)
(* The state.  The tables hold the columns the handlers read; created_at   *)
(* and updated_at of users are written but never decide anything and are   *)
(* left out.                                                               *)
(***************************************************************************)
VARIABLES
    bills,      \* table bills: a set of rows
    users,      \* table users: a set of rows
    now,        \* datetime.now(), in ticks
    ntok,       \* tokens generate_token has returned
    nuuid,      \* ids generate_user_id has returned
    nclock,     \* clock moves so far
    tmpfiles,   \* names of the files present under /tmp
    req         \* the request slots: each request's handler position

vars == <<bills, users, now, ntok, nuuid, nclock, tmpfiles, req>>
store == <<bills, users>>

Slots == 1..NumReq

(***************************************************************************)
(* src/bills/db.py                                                         *)
(***************************************************************************)
\* _hash_password: sha256 of password + salt, one digest per password
HashPassword(password) == <<"sha256", password, "smartledger_default_salt">>

\* generate_user_id: a uuid4 no earlier call returned
GeneratedUserId(n) == IF n = 1 THEN "uuid-1" ELSE IF n = 2 THEN "uuid-2" ELSE "uuid-3"

MissingText == [k |-> "missing", v |-> 0]

\* the rows SELECT ... FROM bills WHERE bill_id = ? returns
BillRows(table, bill_id) == {b \in table : b.bill_id = bill_id}

\* get_bill_by_id: whether fetchone() returns a row, and the row
BillExists(table, bill_id) == BillRows(table, bill_id) /= {}
get_bill_by_id(table, bill_id) == CHOOSE b \in BillRows(table, bill_id) : TRUE

\* save_bill raises ValueError: bill_id missing or empty
SaveBillValueError(bill_data) == ~TruthyStr(bill_data.bill_id)

\* a bills table without the UNIQUE constraint on bill_id
SaveBillNeverConflicts(table, bill_data) == FALSE
\* save_bill's INSERT raises sqlite3.IntegrityError: bill_id TEXT UNIQUE
SaveBillIntegrityError(table, bill_data) == BillExists(table, bill_data.bill_id)

\* the row save_bill inserts: dict.get(key, default) gives the default only
\* for a key that is missing, never for a key holding None
BillRow(bill_data, t) ==
    [bill_id |-> bill_data.bill_id,
     user_id |-> IF bill_data.user_id = MISSING THEN "anonymous" ELSE bill_data.user_id,
     category |-> IF bill_data.category = MISSING THEN NULL ELSE bill_data.category,
     amount |-> bill_data.amount,
     date |-> IF bill_data.date = MissingText THEN DateStr(t) ELSE bill_data.date,
     description |-> IF bill_data.description = MISSING THEN "" ELSE bill_data.description,
     nw_type |-> IF bill_data.nw_type = MISSING THEN NULL ELSE bill_data.nw_type]

\* save_bill: the table after a successful INSERT and commit
save_bill(table, bill_data, t) == table \cup {BillRow(bill_data, t)}

\* delete_bill: DELETE FROM bills WHERE bill_id = ?; rowcount > 0
delete_bill(table, bill_id) == table \ BillRows(table, bill_id)
DeleteBillRowcount(table, bill_id) == Cardinality(BillRows(table, bill_id))

\* save_user_token: the expiry it writes
TokenExpiry(t, expires_in_days) == TimestampStr(t + expires_in_days * TicksPerDay)

\* an UPDATE that writes only where no token is stored yet
save_user_token_KeepsFirst(table, user_id, token, t, expires_in_days) ==
    {IF u.user_id = user_id /\ u.token = NullToken
     THEN [u EXCEPT !.token = token, !.token_expires_at = TokenExpiry(t, expires_in_days)]
     ELSE u : u \in table}
\* save_user_token: UPDATE users SET token, token_expires_at WHERE user_id = ?
save_user_token(table, user_id, token, t, expires_in_days) ==
    {IF u.user_id = user_id
     THEN [u EXCEPT !.token = token, !.token_expires_at = TokenExpiry(t, expires_in_days)]
     ELSE u : u \in table}

\* the rows SELECT ... FROM users WHERE token = ? returns
TokenRows(table, token) == {u \in table : u.token = token /\ token /= NullToken}

\* verify_token on a found row: the expiry check
RowTokenValid(row, t) ==
    IF Truthy(row.token_expires_at)
    THEN /\ ParseTimestamp(row.token_expires_at) >= 0
         /\ ~(t > ParseTimestamp(row.token_expires_at))
    ELSE TRUE

\* a verify_token without the literal branch
verify_token_NoLiteral(table, token, t) ==
    IF TokenRows(table, token) = {} THEN NULL
    ELSE LET row == CHOOSE u \in TokenRows(table, token) : TRUE
         IN  IF RowTokenValid(row, t) THEN row.user_id ELSE NULL

\* verify_token: the user_id of the identity returned, or NULL for None
verify_token(table, token, t) ==
    IF token = HARDCODED_TOKEN THEN HardcodedUserId
    ELSE IF TokenRows(table, token) = {} THEN NULL
    ELSE LET row == CHOOSE u \in TokenRows(table, token) : TRUE
         IN  IF RowTokenValid(row, t) THEN row.user_id ELSE NULL

\* the token_expires_at verify_token returns with a valid identity
VerifiedExpiry(table, token) ==
    IF token = HARDCODED_TOKEN \/ TokenRows(table, token) = {} THEN NullText
    ELSE (CHOOSE u \in TokenRows(table, token) : TRUE).token_expires_at

\* verify_user: the user_id of the row with this email and password, or NULL
verify_user(table, email, password) ==
    LET rows == {u \in table : u.email = email /\ u.password_hash = HashPassword(password)}
    IN  IF rows = {} THEN NULL ELSE (CHOOSE u \in rows : TRUE).user_id

\* create_user's two SELECTs
EmailTaken(table, email) == \E u \in table : u.email = email
UserIdTaken(table, user_id) == \E u \in table : u.user_id = user_id

\* create_user's INSERT raises sqlite3.IntegrityError: user_id and email are
\* UNIQUE NOT NULL
CreateUserIntegrityError(table, email, user_id) ==
    EmailTaken(table, email) \/ UserIdTaken(table, user_id)

\* create_user: the table after the INSERT and commit
create_user(table, email, password, user_id) ==
    table \cup {[user_id |-> user_id, email |-> email,
                 password_hash |-> HashPassword(password),
                 token |-> NullToken, token_expires_at |-> NullText]}

\* delete_user: the table after DELETE FROM users WHERE user_id = ? and
\* commit, and the rowcount
delete_user(table, user_id) == {u \in table : u.user_id /= user_id}
DeleteUserRowcount(table, user_id) == Cardinality({u \in table : u.user_id = user_id})

\* update_user_password: the table after UPDATE users SET password_hash = ?
\* WHERE user_id = ? and commit
update_user_password(table, user_id, new_password) ==
    {IF u.user_id = user_id
     THEN [u EXCEPT !.password_hash = HashPassword(new_password)]
     ELSE u : u \in table}

\* update_user_email raises ValueError: another user holds the email
UpdateEmailValueError(table, user_id, new_email) ==
    \E u \in table : u.email = new_email /\ u.user_id /= user_id

\* update_user_email: the table after UPDATE users SET email = ? WHERE
\* user_id = ? and commit
update_user_email(table, user_id, new_email) ==
    {IF u.user_id = user_id THEN [u EXCEPT !.email = new_email] ELSE u : u \in table}


(***************************************************************************)
(* Requests.  A slot holds one request: the handler (op), where it stands  *)
(* (pc), the request's fields (a), the handler's local variables (l) and,  *)
(* once it has answered, the response (resp).                              *)
(***************************************************************************)
\* an amount as a request or a parse result carries it: a JSON string, a
\* JSON number (written as its literal), JSON null, or no such key
StrAmount(s) == [t |-> "str", s |-> s]
NumAmount(s) == [t |-> "num", s |-> s]
NullAmountIn == [t |-> "null", s |-> <<>>]
MissingAmountIn == [t |-> "missing", s |-> <<>>]

NoArgs ==
    [email |-> NULL, password |-> NULL, user_id |-> NULL, token |-> NullToken,
     bill_id |-> NULL, category |-> NULL, amount |-> NullAmountIn,
     date |-> NullText, description |-> NULL, nw_type |-> NULL,
     text |-> NULL, filename |-> NULL]

NoBillData ==
    [bill_id |-> NULL, user_id |-> NULL, category |-> NULL, amount |-> NullAmount,
     date |-> NullText, description |-> NULL, nw_type |-> NULL]

\* no parse result yet
NoParsed ==
    [category |-> MISSING, amount |-> MissingAmountIn, date |-> MissingText,
     description |-> MISSING, nw_type |-> MISSING]

\* the locals of a handler, and conns: the connections opened by the store
\* function the handler is in (its local conn) and not yet closed
NoLocals ==
    [user_id |-> NULL, token |-> NullToken, day |-> NullText, bill_data |-> NoBillData,
     parsed_json |-> NoParsed, conns |-> 0]

\* the "result" of an upload response: the parser's dict with the amount
\* replaced, a key the dict lacks being MISSING; here of a response without
\* "result"
NoResult ==
    [category |-> MISSING, amount |-> <<>>, date |-> MissingText,
     description |-> MISSING, nw_type |-> MISSING]

\* a response: the HTTP status, the body's status field, the detail or
\* message, and the fields some handlers add
NoResp ==
    [code |-> 0, status |-> "", detail |-> "", token |-> NullToken,
     valid |-> FALSE, bill_id |-> NULL, result |-> NoResult]

\* raise HTTPException(status_code, detail)
HttpError(code, detail) == [NoResp EXCEPT !.code = code, !.detail = detail]
\* a response model or JSONResponse with status "ok"
Ok == [NoResp EXCEPT !.code = 200, !.status = "ok"]
\* the upload handlers' JSONResponse({"status": "error", "message": str(e)})
ErrorBody(message) == [NoResp EXCEPT !.code = 200, !.status = "error", !.detail = message]

IdleSlot == [op |-> "idle", pc |-> "idle", a |-> NoArgs, l |-> NoLocals, resp |-> NoResp]

Free(s) == req[s].pc \in {"idle", "done"}

\* the slot takes a new request
Begin(s, op, pc, a, l) ==
    req' = [req EXCEPT ![s] = [op |-> op, pc |-> pc, a |-> a, l |-> l, resp |-> NoResp]]
\* the handler moves on
Goto(s, pc, l) == req' = [req EXCEPT ![s].pc = pc, ![s].l = l]
\* the handler answers and its locals are gone
Answer(s, resp) ==
    req' = [req EXCEPT ![s].pc = "done", ![s].l = NoLocals, ![s].resp = resp]
\* the slot takes a request that is answered in its first step
BeginAnswer(s, op, a, resp) ==
    req' = [req EXCEPT ![s] = [op |-> op, pc |-> "done", a |-> a, l |-> NoLocals, resp |-> resp]]

(***************************************************************************)
(* src/interface/app.py: manual_bill                                       *)
(***************************************************************************)
\* normalize_amount: the exception branch is taken
NormalizeAmountFails(val) ==
    LET f == ParseFloat(IF val.t = "num" THEN val.s ELSE StripMarkers(Strip(val.s)))
    IN  ~f.ok \/ NonPositive(f)

\* normalize_amount: the value returned
normalize_amount(val) ==
    Round2(ParseFloat(IF val.t = "num" THEN val.s ELSE StripMarkers(Strip(val.s))))

\* the first check of manual_bill that raises, in the order of the code, or
\* "" when all pass
ManualBillRejection(a) ==
    IF ~TruthyStr(a.category) THEN "category_empty"
    ELSE IF a.amount.t = "null" THEN "amount_empty"
    ELSE IF ~TruthyStr(a.bill_id) THEN "bill_id_empty"
    ELSE IF Truthy(a.date) /\ ~ParsesAsDate(a.date) THEN "date_format"
    ELSE IF TruthyStr(a.nw_type) /\ a.nw_type \notin NwTypes THEN "nw_type"
    ELSE IF ~InCategories(a.category) THEN "category_not_allowed"
    ELSE IF NormalizeAmountFails(a.amount) THEN "amount_invalid"
    ELSE ""

\* the bill_data dict manual_bill builds
ManualBillData(a) ==
    [bill_id |-> a.bill_id,
     user_id |-> a.user_id,
     category |-> a.category,
     amount |-> normalize_amount(a.amount),
     date |-> a.date,
     description |-> IF TruthyStr(a.description) THEN a.description ELSE "",
     nw_type |-> a.nw_type]

\* a handler that writes the row before it checks the request
ManualBillStart_SavesFirst(s, a) ==
    /\ Free(s)
    /\ bills' = save_bill(bills, ManualBillData(a), now)
    /\ IF ManualBillRejection(a) /= ""
       THEN BeginAnswer(s, "manual_bill", a, HttpError(400, ManualBillRejection(a)))
       ELSE Begin(s, "manual_bill", "save", a, [NoLocals EXCEPT !.bill_data = ManualBillData(a)])
    /\ UNCHANGED <<users, now, ntok, nuuid, nclock, tmpfiles>>

\* manual_bill up to save_bill: the checks and bill_data
ManualBillStart(s, a) ==
    /\ Free(s)
    /\ IF ManualBillRejection(a) /= ""
       THEN BeginAnswer(s, "manual_bill", a, HttpError(400, ManualBillRejection(a)))
       ELSE Begin(s, "manual_bill", "save", a, [NoLocals EXCEPT !.bill_data = ManualBillData(a)])
    /\ UNCHANGED <<bills, users, now, ntok, nuuid, nclock, tmpfiles>>

\* the status manual_bill answers with when save_bill raises (except Exception)
ManualBillSaveError == 500

\* a handler that replaces the row of a bill_id that is stored
ManualBillSave_Upserts(s) ==
    /\ req[s].op = "manual_bill" /\ req[s].pc = "save"
    /\ bills' = save_bill(bills \ BillRows(bills, req[s].a.bill_id), req[s].l.bill_data, now)
    /\ Answer(s, [Ok EXCEPT !.bill_id = req[s].a.bill_id])
    /\ UNCHANGED <<users, now, ntok, nuuid, nclock, tmpfiles>>

\* manual_bill: save_bill and the response
ManualBillSave(s) ==
    /\ req[s].op = "manual_bill" /\ req[s].pc = "save"
    /\ IF SaveBillIntegrityError(bills, req[s].l.bill_data)
       THEN /\ Answer(s, HttpError(ManualBillSaveError, "save_failed_unique_bill_id"))
            /\ UNCHANGED bills
       ELSE /\ bills' = save_bill(bills, req[s].l.bill_data, now)
            /\ Answer(s, [Ok EXCEPT !.bill_id = req[s].a.bill_id])
    /\ UNCHANGED <<users, now, ntok, nuuid, nclock, tmpfiles>>

(***************************************************************************)
(* src/interface/app.py: delete_bill_endpoint                              *)
(***************************************************************************)
\* a handler that looks the bill up whatever verify_token returned
DeleteBillStart_NoTokenCheck(s, token, bill_id) ==
    LET a == [NoArgs EXCEPT !.token = token, !.bill_id = bill_id]
        uid == verify_token(users, token, now)
    IN  /\ Free(s)
        /\ Begin(s, "delete_bill", "get", a, [NoLocals EXCEPT !.user_id = uid])
        /\ UNCHANGED <<bills, users, now, ntok, nuuid, nclock, tmpfiles>>

\* verify_token
DeleteBillStart(s, token, bill_id) ==
    LET a == [NoArgs EXCEPT !.token = token, !.bill_id = bill_id]
        uid == verify_token(users, token, now)
    IN  /\ Free(s)
        /\ IF uid = NULL
           THEN BeginAnswer(s, "delete_bill", a, HttpError(401, "token_invalid"))
           ELSE Begin(s, "delete_bill", "get", a, [NoLocals EXCEPT !.user_id = uid])
        /\ UNCHANGED <<bills, users, now, ntok, nuuid, nclock, tmpfiles>>

\* a handler without the ownership test
OwnerNeverMismatches(bill, user_id) == FALSE
\* the ownership test on the row get_bill_by_id returned
OwnerMismatch(bill, user_id) == bill.user_id /= user_id

\* get_bill_by_id and the ownership check
DeleteBillGet(s) ==
    /\ req[s].op = "delete_bill" /\ req[s].pc = "get"
    /\ IF ~BillExists(bills, req[s].a.bill_id)
       THEN Answer(s, HttpError(404, "bill_not_found"))
       ELSE IF OwnerMismatch(get_bill_by_id(bills, req[s].a.bill_id), req[s].l.user_id)
       THEN Answer(s, HttpError(403, "not_owner"))
       ELSE Goto(s, "delete", req[s].l)
    /\ UNCHANGED <<bills, users, now, ntok, nuuid, nclock, tmpfiles>>

\* delete_bill and the response
DeleteBillDelete(s) ==
    /\ req[s].op = "delete_bill" /\ req[s].pc = "delete"
    /\ bills' = delete_bill(bills, req[s].a.bill_id)
    /\ IF DeleteBillRowcount(bills, req[s].a.bill_id) > 0
       THEN Answer(s, Ok)
       ELSE Answer(s, HttpError(500, "delete_failed"))
    /\ UNCHANGED <<users, now, ntok, nuuid, nclock, tmpfiles>>


(***************************************************************************)
(* src/interface/app.py: register (create_user runs its two SELECTs and    *)
(* its INSERT on one connection, outside any transaction until the INSERT) *)
(***************************************************************************)
\* create_user: SELECT ... WHERE email = ?
RegisterStart(s, email, password, user_id) ==
    LET a == [NoArgs EXCEPT !.email = email, !.password = password, !.user_id = user_id]
    IN  /\ Free(s)
        /\ IF EmailTaken(users, email)
           THEN BeginAnswer(s, "register", a, HttpError(400, "email_taken"))
           ELSE Begin(s, "register", "check_id", a, NoLocals)
        /\ UNCHANGED <<bills, users, now, ntok, nuuid, nclock, tmpfiles>>

\* create_user: generate_user_id, or SELECT ... WHERE user_id = ?
RegisterCheckId(s) ==
    /\ req[s].op = "register" /\ req[s].pc = "check_id"
    /\ IF ~TruthyStr(req[s].a.user_id)
       THEN /\ nuuid < MaxUuids
            /\ nuuid' = nuuid + 1
            /\ Goto(s, "insert", [req[s].l EXCEPT !.user_id = GeneratedUserId(nuuid + 1)])
       ELSE /\ UNCHANGED nuuid
            /\ IF UserIdTaken(users, req[s].a.user_id)
               THEN Answer(s, HttpError(400, "user_id_taken"))
               ELSE Goto(s, "insert", [req[s].l EXCEPT !.user_id = req[s].a.user_id])
    /\ UNCHANGED <<bills, users, now, ntok, nclock, tmpfiles>>

\* create_user: INSERT INTO users, commit, and the response
RegisterInsert(s) ==
    /\ req[s].op = "register" /\ req[s].pc = "insert"
    /\ IF CreateUserIntegrityError(users, req[s].a.email, req[s].l.user_id)
       THEN /\ Answer(s, HttpError(500, "register_failed_unique"))
            /\ UNCHANGED users
       ELSE /\ users' = create_user(users, req[s].a.email, req[s].a.password, req[s].l.user_id)
            /\ Answer(s, Ok)
    /\ UNCHANGED <<bills, now, ntok, nuuid, nclock, tmpfiles>>

(***************************************************************************)
(* src/interface/app.py: login                                             *)
(***************************************************************************)
\* verify_user
LoginStart(s, email, password) ==
    LET a == [NoArgs EXCEPT !.email = email, !.password = password]
        uid == verify_user(users, email, password)
    IN  /\ Free(s)
        /\ IF uid = NULL
           THEN BeginAnswer(s, "login", a, HttpError(401, "bad_credentials"))
           ELSE Begin(s, "login", "generate", a, [NoLocals EXCEPT !.user_id = uid])
        /\ UNCHANGED <<bills, users, now, ntok, nuuid, nclock, tmpfiles>>

\* a generator that returns one value every time
generate_token_Repeats(n) == 1
\* generate_token: secrets.token_urlsafe(32), a value no earlier call returned
generate_token(n) == n + 1

LoginGenerate(s) ==
    /\ req[s].op = "login" /\ req[s].pc = "generate"
    /\ ntok < MaxTokens
    /\ ntok' = ntok + 1
    /\ Goto(s, "save", [req[s].l EXCEPT !.token = generate_token(ntok)])
    /\ UNCHANGED <<bills, users, now, nuuid, nclock, tmpfiles>>

\* save_user_token (its result is not looked at) and the response
LoginSave(s) ==
    /\ req[s].op = "login" /\ req[s].pc = "save"
    /\ users' = save_user_token(users, req[s].l.user_id, req[s].l.token, now, TokenDays)
    /\ Answer(s, [Ok EXCEPT !.token = req[s].l.token])
    /\ UNCHANGED <<bills, now, ntok, nuuid, nclock, tmpfiles>>

(***************************************************************************)
(* src/interface/app.py: verify_token_endpoint                             *)
(***************************************************************************)
\* an endpoint that accepts a token once
VerifyTokenEndpoint_Consumes(s, token) ==
    LET a == [NoArgs EXCEPT !.token = token]
    IN  /\ Free(s)
        /\ BeginAnswer(s, "verify_token", a,
                       [Ok EXCEPT !.valid = verify_token(users, token, now) /= NULL])
        /\ users' = {IF u.token = token THEN [u EXCEPT !.token = NullToken] ELSE u : u \in users}
        /\ UNCHANGED <<bills, now, ntok, nuuid, nclock, tmpfiles>>

VerifyTokenEndpoint(s, token) ==
    LET a == [NoArgs EXCEPT !.token = token]
    IN  /\ Free(s)
        /\ BeginAnswer(s, "verify_token", a,
                       [Ok EXCEPT !.valid = verify_token(users, token, now) /= NULL])
        /\ UNCHANGED <<bills, users, now, ntok, nuuid, nclock, tmpfiles>>

(***************************************************************************)
(* src/interface/app.py: upload_qwen_vl, upload_baidu_qwen, upload_llm     *)
(***************************************************************************)
UploadOps == {"upload_qwen_vl", "upload_baidu_qwen", "upload_llm"}
FileUploadOps == {"upload_qwen_vl", "upload_baidu_qwen"}

\* what a parser backend call gives: a dict of the JSON object's keys (a
\* key the object lacks is MISSING), {"raw": ...} for a reply that is not
\* JSON (every bill key MISSING), or an exception
RawOnly ==
    [category |-> MISSING, amount |-> MissingAmountIn, date |-> MissingText,
     description |-> MISSING, nw_type |-> MISSING]

\* str(parsed_json.get("amount", "0")) with the markers replaced
UploadAmountLiteral(amount) ==
    StripMarkers(CASE amount.t = "missing" -> <<"0">>
                   [] amount.t = "null" -> <<"N", "o", "n", "e">>
                   [] OTHER -> amount.s)

\* float(...) raises ValueError in an upload handler
UploadAmountFails(parsed) == ~ParseFloat(UploadAmountLiteral(parsed.amount)).ok

\* amt = round(float(...), 2)
UploadAmount(parsed) == Round2(ParseFloat(UploadAmountLiteral(parsed.amount)))

\* a bill_data dict that takes the category as the parser gave it
UploadBillData_NoDefault(parsed, user_id, bill_id, day) ==
    [bill_id |-> bill_id,
     user_id |-> user_id,
     category |-> parsed.category,
     amount |-> UploadAmount(parsed),
     date |-> IF parsed.date = MissingText THEN day ELSE parsed.date,
     description |-> IF parsed.description = MISSING THEN "" ELSE parsed.description,
     nw_type |-> IF parsed.nw_type = MISSING THEN NULL ELSE parsed.nw_type]

\* the decimal digits of a natural number
RECURSIVE NatDigits(_)
NatDigits(n) ==
    IF n < 10 THEN <<DigitOf(n)>> ELSE NatDigits(n \div 10) \o <<DigitOf(n % 10)>>

\* f"{amt:.2f}" on the value round(..., 2) returned
Format2f(amt) ==
    CASE amt.cls = "null" -> <<"n", "a", "n">>
      [] amt.cls = "inf" -> IF amt.c < 0 THEN <<"-", "i", "n", "f">> ELSE <<"i", "n", "f">>
      [] OTHER ->
          LET abs == IF amt.c < 0 THEN -amt.c ELSE amt.c
          IN  (IF amt.c < 0 THEN <<"-">> ELSE <<>>)
                  \o NatDigits(abs \div 100)
                  \o <<".", DigitOf((abs % 100) \div 10), DigitOf(abs % 10)>>

\* parsed_json after parsed_json["amount"] = f"{amt:.2f}": the "result" of
\* the response
UploadResult(parsed) ==
    [category |-> parsed.category,
     amount |-> Format2f(UploadAmount(parsed)),
     date |-> parsed.date,
     description |-> parsed.description,
     nw_type |-> parsed.nw_type]

\* the bill_data dict an upload handler builds
UploadBillData(parsed, user_id, bill_id, day) ==
    [bill_id |-> bill_id,
     user_id |-> user_id,
     category |-> IF parsed.category = MISSING THEN DefaultCategory ELSE parsed.category,
     amount |-> UploadAmount(parsed),
     date |-> IF parsed.date = MissingText THEN day ELSE parsed.date,
     description |-> IF parsed.description = MISSING THEN "" ELSE parsed.description,
     nw_type |-> IF parsed.nw_type = MISSING THEN NULL ELSE parsed.nw_type]

\* a handler that writes the temp file before it checks the token
UploadStart_FileFirst(s, op, token, bill_id, text, filename) ==
    LET a == [NoArgs EXCEPT !.token = token, !.bill_id = bill_id,
                            !.text = text, !.filename = filename]
        uid == verify_token(users, token, now)
    IN  /\ Free(s)
        /\ op \in UploadOps
        /\ tmpfiles' = IF op \in FileUploadOps THEN tmpfiles \cup {filename} ELSE tmpfiles
        /\ IF uid = NULL
           THEN BeginAnswer(s, op, a, HttpError(401, "token_invalid"))
           ELSE IF op = "upload_llm" /\ text = ""
           THEN BeginAnswer(s, op, a, HttpError(400, "text_empty"))
           ELSE Begin(s, op, "parse", a,
                      [NoLocals EXCEPT !.user_id = uid, !.day = DateStr(now)])
        /\ UNCHANGED <<bills, users, now, ntok, nuuid, nclock>>

\* the handler up to the parser call: verify_token, the timestamp, the
\* temp file (file uploads) or the text check (upload_llm)
UploadStart(s, op, token, bill_id, text, filename) ==
    LET a == [NoArgs EXCEPT !.token = token, !.bill_id = bill_id,
                            !.text = text, !.filename = filename]
        uid == verify_token(users, token, now)
    IN  /\ Free(s)
        /\ op \in UploadOps
        /\ IF uid = NULL
           THEN /\ BeginAnswer(s, op, a, HttpError(401, "token_invalid"))
                /\ UNCHANGED tmpfiles
           ELSE IF op = "upload_llm" /\ text = ""
           THEN /\ BeginAnswer(s, op, a, HttpError(400, "text_empty"))
                /\ UNCHANGED tmpfiles
           ELSE /\ Begin(s, op, "parse", a,
                         [NoLocals EXCEPT !.user_id = uid, !.day = DateStr(now)])
                /\ tmpfiles' = IF op \in FileUploadOps THEN tmpfiles \cup {filename}
                               ELSE tmpfiles
        /\ UNCHANGED <<bills, users, now, ntok, nuuid, nclock>>

\* the parser call raises: the handler's except Exception answers
UploadParseRaises(s) ==
    /\ req[s].op \in UploadOps /\ req[s].pc = "parse"
    /\ Answer(s, ErrorBody("parser_failed"))
    /\ UNCHANGED <<bills, users, now, ntok, nuuid, nclock, tmpfiles>>

\* the parser call returns parsed: the rest of the handler
UploadParseReturns(s, parsed) ==
    LET r == req[s]
        bill_data == UploadBillData(parsed, r.l.user_id, r.a.bill_id, r.l.day)
    IN  /\ r.op \in UploadOps /\ r.pc = "parse"
        \* parse_bill_text raises ValueError on a blank text
        /\ ~(r.op = "upload_llm" /\ r.a.text = " ")
        /\ IF r.a.bill_id = ""
           THEN /\ Answer(s, HttpError(400, "bill_id_empty"))
                /\ UNCHANGED <<bills, tmpfiles>>
           ELSE IF UploadAmountFails(parsed)
           THEN /\ Answer(s, ErrorBody("amount_not_a_number"))
                /\ UNCHANGED <<bills, tmpfiles>>
           ELSE IF SaveBillIntegrityError(bills, bill_data)
           THEN /\ Answer(s, ErrorBody("unique_bill_id"))
                /\ UNCHANGED <<bills, tmpfiles>>
           ELSE /\ bills' = save_bill(bills, bill_data, now)
                /\ IF r.op \in FileUploadOps
                   THEN IF r.a.filename \in tmpfiles
                        THEN /\ tmpfiles' = tmpfiles \ {r.a.filename}
                             /\ Answer(s, [Ok EXCEPT !.result = UploadResult(parsed)])
                        ELSE /\ UNCHANGED tmpfiles
                             /\ Answer(s, ErrorBody("temp_file_not_found"))
                   ELSE /\ UNCHANGED tmpfiles
                        /\ Answer(s, [Ok EXCEPT !.result = UploadResult(parsed)])
        /\ UNCHANGED <<users, now, ntok, nuuid, nclock>>

(***************************************************************************)
(* The clock.                                                              *)
(***************************************************************************)
ClockMoves(d) ==
    /\ nclock < MaxClock
    /\ d > 0
    /\ now' = now + d
    /\ nclock' = nclock + 1
    /\ UNCHANGED <<bills, users, ntok, nuuid, tmpfiles, req>>


(***************************************************************************)
(* The requests the environment sends.                                     *)
(***************************************************************************)
\* a date the caller writes, as YYYY-MM-DD
CallerDate == [k |-> "date", v |-> 14]

\* a manual_bill request that passes every check
ManualBase ==
    [NoArgs EXCEPT !.user_id = "u1", !.bill_id = "b1", !.category = "dining",
                   !.amount = StrAmount(<<"7">>), !.date = CallerDate,
                   !.description = "lunch"]

ManualInputs ==
    { ManualBase,
      [ManualBase EXCEPT !.amount = StrAmount(<<"1", "2", ".", "3", "4", "5">>)],
      [ManualBase EXCEPT !.user_id = HardcodedUserId],
      [ManualBase EXCEPT !.bill_id = "b2"],
      [ManualBase EXCEPT !.bill_id = ""],
      [ManualBase EXCEPT !.category = ""],
      [ManualBase EXCEPT !.category = "snacks"],
      [ManualBase EXCEPT !.amount = StrAmount(<<"-", "5">>)],
      [ManualBase EXCEPT !.amount = StrAmount(<<"a", "b", "c">>)],
      [ManualBase EXCEPT !.amount = StrAmount(<<"0", ".", "0", "0", "1">>)],
      [ManualBase EXCEPT !.amount = StrAmount(<<"n", "a", "n">>)],
      [ManualBase EXCEPT !.amount = NumAmount(<<"2", ".", "6", "7", "5">>)],
      [ManualBase EXCEPT !.date = NullText],
      [ManualBase EXCEPT !.date = Text(1)],
      [ManualBase EXCEPT !.nw_type = "basic_expense"],
      [ManualBase EXCEPT !.nw_type = "hobby"],
      [ManualBase EXCEPT !.nw_type = ""],
      [ManualBase EXCEPT !.description = NULL] }

\* a parse result with every key, as the prompt asks for it
ParsedBase ==
    [category |-> "shopping", amount |-> StrAmount(<<"9", ".", "5", "0">>),
     date |-> CallerDate, description |-> "shoes", nw_type |-> "fun_expense"]

ParseResults ==
    { ParsedBase,
      RawOnly,
      [ParsedBase EXCEPT !.category = "snacks"],
      [ParsedBase EXCEPT !.category = MISSING],
      [ParsedBase EXCEPT !.amount = StrAmount(<<"-", "3">>)],
      [ParsedBase EXCEPT !.amount = NullAmountIn],
      [ParsedBase EXCEPT !.amount = NumAmount(<<"1", "2", ".", "3", "4", "5">>)],
      [ParsedBase EXCEPT !.date = MissingText],
      [ParsedBase EXCEPT !.nw_type = "hobby"],
      [ParsedBase EXCEPT !.nw_type = MISSING] }

\* the tokens a caller presents: the literal and every token login can return
TokenInputs == 0..MaxTokens

\* the two accounts of the model
AccountA == [email |-> "a@x", password |-> "p", user_id |-> "u1"]
AccountB == [email |-> "b@x", password |-> "p", user_id |-> HardcodedUserId]

\* a token's lifetime, in ticks
Lifetime == TokenDays * TicksPerDay

(***************************************************************************)
(* The database after init_db on a new file, and no request yet.           *)
(***************************************************************************)
Init ==
    /\ bills = {}
    /\ users = {}
    /\ now = 0
    /\ ntok = 0
    /\ nuuid = 0
    /\ nclock = 0
    /\ tmpfiles = {}
    /\ req = [s \in Slots |-> IdleSlot]

\* the slot has taken no request yet
Fresh(s) == req[s].pc = "idle"

(***************************************************************************)
(* SpecManual: NumReq manual_bill requests, one per slot, in every         *)
(* interleaving of their steps, while the days pass.                       *)
(***************************************************************************)
NextManual ==
    \/ \E s \in Slots, a \in ManualInputs : Fresh(s) /\ ManualBillStart(s, a)
    \/ \E s \in Slots : ManualBillSave(s)
    \/ ClockMoves(TicksPerDay)

SpecManual == Init /\ [][NextManual]_vars

\* the manual_bill requests that passed every check and carry bill_id b
ManualOn(b) ==
    {s \in Slots : /\ req[s].op = "manual_bill"
                   /\ req[s].a.bill_id = b
                   /\ ManualBillRejection(req[s].a) = ""}

\* the request of slot s has been answered
Done(s) == req[s].pc = "done"

\* manual_bill answered: stored
ManualStored(s) == Done(s) /\ req[s].resp.status = "ok"

\* manual_bill answered: save_bill met the UNIQUE constraint
ManualConflict(s) == Done(s) /\ req[s].resp.detail = "save_failed_unique_bill_id"

\* the stored row carries the fields of the request of slot s
RowOfRequest(row, s) ==
    /\ row.bill_id = req[s].a.bill_id
    /\ row.user_id = req[s].a.user_id
    /\ row.category = req[s].a.category
    /\ row.amount = normalize_amount(req[s].a.amount)
    /\ row.date = req[s].a.date
    /\ row.nw_type = req[s].a.nw_type

BillIds == {r.bill_id : r \in ManualInputs}

(***************************************************************************)
(* C1: of the concurrent manual_bill requests that carry the same bill_id, *)
(* once all are answered exactly one has stored its bill and answered ok,  *)
(* every other one met the duplicate-bill_id conflict (the IntegrityError  *)
(* of save_bill, which the handler reports to the caller), and the table   *)
(* holds exactly one row with that bill_id, which carries the fields of    *)
(* the request that answered ok; at no time does the table hold two rows   *)
(* with one bill_id.                                                       *)
(***************************************************************************)
C1_OneWinnerPerBillId ==
    \A b \in BillIds :
        /\ Cardinality(BillRows(bills, b)) <= 1
        /\ (ManualOn(b) /= {} /\ \A s \in ManualOn(b) : Done(s)) =>
             /\ Cardinality({s \in ManualOn(b) : ManualStored(s)}) = 1
             /\ \A s \in ManualOn(b) : ManualStored(s) \/ ManualConflict(s)
             /\ \E w \in ManualOn(b) :
                  /\ ManualStored(w)
                  /\ \A row \in BillRows(bills, b) : RowOfRequest(row, w)
                  /\ BillRows(bills, b) /= {}

\* two requests with one bill_id and different amounts are both answered:
\* the request of slot 2 stored its bill, the request of slot 1 met the
\* conflict
C1_RaceDecided ==
    /\ ManualStored(2) /\ ManualConflict(1)
    /\ req[1].a.bill_id = req[2].a.bill_id
    /\ normalize_amount(req[1].a.amount) /= normalize_amount(req[2].a.amount)

(***************************************************************************)
(* C2: a manual_bill request whose bill_id is already stored is answered   *)
(* with a conflict error of the 400/409 class, and the stored record is    *)
(* left as it was.                                                         *)
(***************************************************************************)
C2_DuplicateIsConflictError ==
    [][\A s \in Slots :
         (/\ req[s].op = "manual_bill" /\ req[s].pc = "save"
          /\ req'[s].pc = "done"
          /\ BillExists(bills, req[s].a.bill_id)) =>
            /\ req'[s].resp.code \in {400, 409}
            /\ bills' = bills]_vars

(***************************************************************************)
(* C9: a manual_bill request that is accepted and names no date stores a   *)
(* bill whose date is the day of the ingestion, and no bill is ever stored *)
(* with a null date.                                                       *)
(***************************************************************************)
C9_NoDateMeansToday ==
    /\ [](\A row \in bills : row.date /= NullText)
    /\ [][\A s \in Slots :
            (/\ req[s].op = "manual_bill" /\ req[s].pc = "save"
             /\ ~Truthy(req[s].a.date)
             /\ bills' /= bills) =>
               \A row \in BillRows(bills', req[s].a.bill_id) : row.date = DateStr(now)]_vars

(***************************************************************************)
(* The register and login requests of the authentication specifications.   *)
(***************************************************************************)
Accounts == {AccountA, AccountB}
RegisterInputs ==
    { AccountA, AccountB, [AccountB EXCEPT !.user_id = NULL] }
LoginInputs ==
    { [email |-> AccountA.email, password |-> AccountA.password],
      [email |-> AccountB.email, password |-> AccountB.password],
      [email |-> AccountA.email, password |-> "q"] }
AuthClockSteps == {1, Lifetime}

(***************************************************************************)
(* SpecLoginRace: register and login requests on NumReq slots, in every    *)
(* interleaving of the handlers' store operations, while time passes.  A   *)
(* slot takes a new request once its last one is answered, but a slot that *)
(* has taken a login request takes no further request, so that the answers *)
(* of all logins stay in view.                                             *)
(***************************************************************************)
NoLoginYet(s) == req[s].op /= "login"

NextLoginRace ==
    \/ \E s \in Slots, r \in RegisterInputs :
           NoLoginYet(s) /\ RegisterStart(s, r.email, r.password, r.user_id)
    \/ \E s \in Slots : RegisterCheckId(s)
    \/ \E s \in Slots : RegisterInsert(s)
    \/ \E s \in Slots, c \in LoginInputs :
           NoLoginYet(s) /\ LoginStart(s, c.email, c.password)
    \/ \E s \in Slots : LoginGenerate(s)
    \/ \E s \in Slots : LoginSave(s)
    \/ \E d \in AuthClockSteps : ClockMoves(d)

SpecLoginRace == Init /\ [][NextLoginRace]_vars

\* the tokens login has generated so far, and the user ids of the table
IssuedTokens == 1..ntok
UserIds == {u.user_id : u \in users}

\* the step of slot s is login's save_user_token
LoginSaves(s) == req[s].op = "login" /\ req[s].pc = "save" /\ req'[s].pc = "done"

\* after the step, the token slot s saves is the only issued token that
\* verify_token accepts for the user of slot s
SavedTokenIsTheOne(s) ==
    /\ verify_token(users', req[s].l.token, now') = req[s].l.user_id
    /\ \A k \in IssuedTokens \ {req[s].l.token} :
           verify_token(users', k, now') /= req[s].l.user_id

\* token k is stored on no row and no login is about to save it
Overwritten(table, r, k) ==
    /\ TokenRows(table, k) = {}
    /\ \A s \in Slots : ~(r[s].op = "login" /\ r[s].pc = "save" /\ r[s].l.token = k)

(***************************************************************************)
(* C4: at any time, for every user at most one of the tokens login has     *)
(* issued is accepted by verify_token as that user; the step in which a    *)
(* login saves its token makes that token the one accepted for the user    *)
(* and every other issued token rejected for the user; and a token that    *)
(* has been overwritten is stored on no row ever after, so verify_token    *)
(* rejects it from then on.                                                *)
(***************************************************************************)
C4_OneTokenPerUser ==
    /\ [](\A u \in UserIds :
            Cardinality({k \in IssuedTokens : verify_token(users, k, now) = u}) <= 1)
    /\ [][\A s \in Slots : LoginSaves(s) => SavedTokenIsTheOne(s)]_vars
    /\ [][\A k \in IssuedTokens :
            Overwritten(users, req, k) =>
                /\ Overwritten(users', req', k)
                /\ verify_token(users', k, now') = NULL]_vars

\* a user has logged in twice: the second token is accepted, the first one,
\* returned by an answered login, is rejected
C4_SecondLoginReplacedFirst ==
    /\ req[1].op = "login" /\ Done(1) /\ req[1].resp.token = 1
    /\ req[2].op = "login" /\ Done(2) /\ req[2].resp.token = 2
    /\ req[1].a.email = req[2].a.email
    /\ verify_token(users, 2, now) = AccountA.user_id
    /\ verify_token(users, 1, now) = NULL

\* the answered, successful logins of user u
DoneLogins(u) ==
    {s \in Slots : /\ req[s].op = "login" /\ Done(s) /\ req[s].resp.status = "ok"
                   /\ verify_user(users, req[s].a.email, req[s].a.password) = u}

\* the token stored for user u is past its token_expires_at
StoredTokenExpired(u) ==
    \E row \in users :
        /\ row.user_id = u /\ row.token /= NullToken
        /\ now > ParseTimestamp(row.token_expires_at)

(***************************************************************************)
(* C6: of the tokens returned by the answered logins of one user, whatever *)
(* the interleaving of their generate_token and save_user_token steps,     *)
(* exactly one is accepted by verify_token for as long as it has not       *)
(* expired, and it is the one issued last, that is the one whose           *)
(* save_user_token ran last: each save_user_token step leaves its own      *)
(* token as the only accepted one of the user.                             *)
(***************************************************************************)
C6_LastWriterWins ==
    /\ [](\A u \in UserIds :
            (DoneLogins(u) /= {} /\ ~StoredTokenExpired(u)) =>
                Cardinality({s \in DoneLogins(u) :
                    verify_token(users, req[s].resp.token, now) = u}) = 1)
    /\ [][\A s \in Slots :
            LoginSaves(s) =>
                /\ SavedTokenIsTheOne(s)
                /\ \A o \in DoneLogins(req[s].l.user_id) :
                       verify_token(users', req[o].resp.token, now') = NULL]_vars

\* two logins of one user are answered; the token generated second was saved
\* first, and the token generated first is the accepted one
C6_FirstGeneratedSavedLast ==
    /\ req[1].op = "login" /\ Done(1) /\ req[1].resp.token = 1
    /\ req[2].op = "login" /\ Done(2) /\ req[2].resp.token = 2
    /\ req[1].a.email = req[2].a.email
    /\ verify_token(users, 1, now) = AccountA.user_id
    /\ verify_token(users, 2, now) = NULL

(***************************************************************************)
(* SpecToken: login, verify_token and the clock on a database file that    *)
(* already holds a user with a token.  init_db creates the tables only IF  *)
(* NOT EXISTS and rewrites no row, so the row is whatever the file holds:  *)
(* token and token_expires_at are nullable TEXT columns.                   *)
(***************************************************************************)
\* a token found in the file, which login does not generate again
StoredToken == MaxTokens + 1

\* token_expires_at as found in the file: the second 0 in the format
\* save_user_token writes, a text that is no timestamp, '', NULL
StoredExpiries == {TimestampStr(0), Text(1), EmptyText, NullText}

StoredUser(e) ==
    [user_id |-> AccountA.user_id, email |-> AccountA.email,
     password_hash |-> HashPassword(AccountA.password),
     token |-> StoredToken, token_expires_at |-> e]

InitToken ==
    /\ bills = {}
    /\ \E e \in StoredExpiries : users = {StoredUser(e)}
    /\ now = 0
    /\ ntok = 0
    /\ nuuid = 0
    /\ nclock = 0
    /\ tmpfiles = {}
    /\ req = [s \in Slots |-> IdleSlot]

NextToken ==
    \/ \E s \in Slots, c \in LoginInputs : LoginStart(s, c.email, c.password)
    \/ \E s \in Slots : LoginGenerate(s)
    \/ \E s \in Slots : LoginSave(s)
    \/ \E s \in Slots, token \in TokenInputs \cup {StoredToken} :
           VerifyTokenEndpoint(s, token)
    \/ \E d \in AuthClockSteps : ClockMoves(d)

SpecToken == InitToken /\ [][NextToken]_vars

Quiet == \A o \in Slots : Free(o)

\* the slot that serves the requests preparing the tables
FirstSlot == {1}

DeleteManualInputs ==
    { ManualBase, [ManualBase EXCEPT !.user_id = HardcodedUserId] }
DeleteLogins == {c \in LoginInputs : c.password = AccountA.password}

NextDelete ==
    \/ \E s \in FirstSlot, r \in Accounts :
           Quiet /\ RegisterStart(s, r.email, r.password, r.user_id)
    \/ \E s \in Slots : RegisterCheckId(s)
    \/ \E s \in Slots : RegisterInsert(s)
    \/ \E s \in FirstSlot, c \in DeleteLogins : Quiet /\ LoginStart(s, c.email, c.password)
    \/ \E s \in Slots : LoginGenerate(s)
    \/ \E s \in Slots : LoginSave(s)
    \/ \E s \in FirstSlot, a \in DeleteManualInputs : Quiet /\ ManualBillStart(s, a)
    \/ \E s \in Slots : ManualBillSave(s)
    \/ \E s \in Slots, token \in TokenInputs :
           Quiet /\ DeleteBillStart(s, token, ManualBase.bill_id)
    \/ \E s \in Slots : DeleteBillGet(s)
    \/ \E s \in Slots : DeleteBillDelete(s)

SpecDelete == Init /\ [][NextDelete]_vars

\* the step is taken by the delete_bill request of slot s at position pc
DeleteStep(s, pc) ==
    req[s].op = "delete_bill" /\ req[s].pc = pc /\ req'[s] /= req[s]

\* the token is the one stored for user_id, or the literal of verify_token
TokenOf(token, user_id) ==
    \/ token = HARDCODED_TOKEN /\ user_id = HardcodedUserId
    \/ \E row \in TokenRows(users, token) : row.user_id = user_id

(***************************************************************************)
(* C3: a delete_bill request past its token check acts for the user whose  *)
(* token it carries.  When the bill it names is stored for another user,   *)
(* it is answered 403 and the bills table is left as it was; when the bill *)
(* is stored for that user, the request goes on to delete_bill, answers ok *)
(* and get_bill_by_id finds no row for the bill_id afterwards.             *)
(***************************************************************************)
C3_OnlyTheOwnerDeletes ==
    /\ [](\A s \in Slots :
            (req[s].op = "delete_bill" /\ req[s].pc \in {"get", "delete"}) =>
                TokenOf(req[s].a.token, req[s].l.user_id))
    /\ [][\A s \in Slots :
            (DeleteStep(s, "get") /\ BillExists(bills, req[s].a.bill_id)) =>
                IF get_bill_by_id(bills, req[s].a.bill_id).user_id /= req[s].l.user_id
                THEN /\ req'[s].pc = "done" /\ req'[s].resp.code = 403
                     /\ bills' = bills
                ELSE /\ req'[s].pc = "delete"
                     /\ bills' = bills]_vars
    /\ [][\A s \in Slots :
            DeleteStep(s, "delete") =>
                /\ req'[s].resp = Ok
                /\ ~BillExists(bills', req[s].a.bill_id)]_vars

\* the bill of user u1 was refused to the token of the other account with
\* 403, then deleted with the token of u1, and is stored no more
C3_RefusedThenDeleted ==
    /\ req[1].op = "delete_bill" /\ Done(1) /\ req[1].resp.code = 403
    /\ req[2].op = "delete_bill" /\ Done(2) /\ req[2].resp = Ok
    /\ req[1].a.bill_id = req[2].a.bill_id
    /\ TokenOf(req[1].a.token, AccountB.user_id)
    /\ req[1].a.token /= HARDCODED_TOKEN
    /\ TokenOf(req[2].a.token, AccountA.user_id)
    /\ ~BillExists(bills, req[2].a.bill_id)

(***************************************************************************)
(* SpecIngest: the four ingestion paths, manual_bill and the three upload  *)
(* handlers, after a register and a login, served by one slot.             *)
(***************************************************************************)
IngestManualInputs ==
    {a \in ManualInputs :
        /\ a.user_id = ManualBase.user_id /\ a.bill_id = ManualBase.bill_id
        /\ a.date = ManualBase.date /\ a.description = ManualBase.description
        /\ a.category /= ""}

UploadBase ==
    [op |-> "upload_qwen_vl", token |-> HARDCODED_TOKEN,
     bill_id |-> ManualBase.bill_id, text |-> NULL, filename |-> "receipt.jpg"]
UploadText(text) ==
    [UploadBase EXCEPT !.op = "upload_llm", !.text = text, !.filename = NULL]

UploadInputs ==
    { UploadBase,
      [UploadBase EXCEPT !.op = "upload_baidu_qwen"],
      [UploadBase EXCEPT !.token = 1],
      [UploadBase EXCEPT !.bill_id = ""],
      UploadText("shoes 9.5"),
      UploadText(" "),
      UploadText("") }

NextIngest ==
    \/ \E s \in FirstSlot :
           RegisterStart(s, AccountA.email, AccountA.password, AccountA.user_id)
    \/ \E s \in FirstSlot : RegisterCheckId(s)
    \/ \E s \in FirstSlot : RegisterInsert(s)
    \/ \E s \in FirstSlot : LoginStart(s, AccountA.email, AccountA.password)
    \/ \E s \in FirstSlot : LoginGenerate(s)
    \/ \E s \in FirstSlot : LoginSave(s)
    \/ \E s \in FirstSlot, a \in IngestManualInputs : ManualBillStart(s, a)
    \/ \E s \in FirstSlot : ManualBillSave(s)
    \/ \E s \in FirstSlot, u \in UploadInputs :
           UploadStart(s, u.op, u.token, u.bill_id, u.text, u.filename)
    \/ \E s \in FirstSlot : UploadParseRaises(s)
    \/ \E s \in FirstSlot, parsed \in ParseResults : UploadParseReturns(s, parsed)

SpecIngest == Init /\ [][NextIngest]_vars

(***************************************************************************)
(* C7: every stored bill has an amount that is a number above zero with at *)
(* most two decimals, whichever ingestion path stored it.                  *)
(***************************************************************************)
C7_StoredAmountPositive ==
    \A row \in bills : row.amount.cls = "fin" /\ row.amount.c > 0

(***************************************************************************)
(* C8: every stored bill has a category of the CATEGORIES whitelist,       *)
(* whichever ingestion path stored it.                                     *)
(***************************************************************************)
C8_StoredCategoryListed ==
    \A row \in bills : InCategories(row.category)

(***************************************************************************)
(* C10: every stored bill has an nw_type that is null or one of the two    *)
(* labels, and a manual_bill request that is answered ok carried such an   *)
(* nw_type.                                                                *)
(***************************************************************************)
C10_StoredNwTypeListed ==
    /\ \A row \in bills : row.nw_type \in NwTypes \cup {NULL}
    /\ \A s \in Slots :
           (req[s].op = "manual_bill" /\ ManualStored(s)) =>
               req[s].a.nw_type \in NwTypes \cup {NULL}

(***************************************************************************)
(* SpecAmount: manual_bill requests that differ in the amount alone, one   *)
(* at a time on the first slot.  The amounts are decimal literals, written *)
(* bare, with a "," after the first digit, with a leading yen sign, with   *)
(* "RMB" before or after, between blanks, or with a minus sign, and texts  *)
(* that are no decimal literal.                                            *)
(***************************************************************************)
IntParts == {<<"0">>, <<"2">>, <<"7">>, <<"1", "2">>, <<"1", "2", "3", "4">>}
FracParts ==
    {<<>>, <<"0">>, <<"5">>, <<"5", "0">>, <<"0", "0", "1">>, <<"0", "0", "5">>,
     <<"1", "2", "5">>, <<"3", "4", "4">>, <<"3", "4", "5">>, <<"6", "7", "5">>}

\* the literal ip.fp, or ip alone
Bare(ip, fp) == IF fp = <<>> THEN ip ELSE ip \o <<".">> \o fp

Markers == {"comma", "yen", "rmb_before", "rmb_after", "blanks"}
Decorations == Markers \cup {"none", "minus"}

Decorate(b, d) ==
    CASE d = "comma" -> <<Head(b), ",">> \o Tail(b)
      [] d = "yen" -> <<"U+FFE5">> \o b
      [] d = "rmb_before" -> <<"R", "M", "B">> \o b
      [] d = "rmb_after" -> b \o <<"R", "M", "B">>
      [] d = "blanks" -> <<" ">> \o b \o <<" ">>
      [] d = "minus" -> <<"-">> \o b
      [] OTHER -> b

\* texts that are no number
NotNumbers ==
    {<<>>, <<"a", "b", "c">>, <<"1", ".", "2", ".", "3">>, <<"-">>, <<"n", "a", "n">>}

AmountTexts ==
    {Decorate(Bare(ip, fp), d) : ip \in IntParts, fp \in FracParts, d \in Decorations}
        \cup NotNumbers \cup {<<"i", "n", "f">>, <<"-", "i", "n", "f">>}

NextAmount ==
    \/ \E s \in FirstSlot, x \in AmountTexts :
           Fresh(s) /\ ManualBillStart(s, [ManualBase EXCEPT !.amount = StrAmount(x)])
    \/ \E s \in FirstSlot : ManualBillSave(s)

SpecAmount == Init /\ [][NextAmount]_vars

\* the value of the literal ip.fp in thousandths (fp has at most 3 digits)
Thousandths(ip, fp) ==
    DigitsValue(ip) * 1000 + DigitsValue(SubSeq(fp \o <<"0", "0", "0">>, 1, 3))

\* r is a manual_bill request with the amount text x
ManualAmountIs(r, x) == r.op = "manual_bill" /\ r.a.amount = StrAmount(x)

\* the amount of request r is no number, or a literal of a value <= 0
BadAmount(r) ==
    \/ \E x \in NotNumbers : ManualAmountIs(r, x)
    \/ \E ip \in IntParts, fp \in FracParts :
          \/ ManualAmountIs(r, Decorate(Bare(ip, fp), "minus"))
          \/ Thousandths(ip, fp) = 0 /\ ManualAmountIs(r, Bare(ip, fp))

(***************************************************************************)
(* C11: a manual_bill request whose amount is no number, or is a decimal   *)
(* literal of a value <= 0 (zero, or any literal with a minus sign), is    *)
(* answered 400 by the step that takes it, and that step leaves the bills  *)
(* table as it was.                                                        *)
(***************************************************************************)
C11_BadAmountRejected ==
    [][\A s \in Slots :
         (req'[s] /= req[s] /\ BadAmount(req'[s])) =>
            /\ req'[s].pc = "done" /\ req'[s].resp.code = 400
            /\ bills' = bills]_vars

\* the category c is none of the entries of CATEGORIES
Unlisted(c) == c \notin {CATEGORIES[i] : i \in 1..Len(CATEGORIES)}

(***************************************************************************)
(* C12: a manual_bill request whose category is none of the twelve entries *)
(* of CATEGORIES is answered 400 by the step that takes it, and that step  *)
(* leaves the bills table as it was (SpecManual).                          *)
(***************************************************************************)
C12_UnlistedCategoryRejected ==
    [][\A s \in Slots :
         (/\ req'[s] /= req[s]
          /\ req'[s].op = "manual_bill"
          /\ Unlisted(req'[s].a.category)) =>
            /\ req'[s].pc = "done" /\ req'[s].resp.code = 400
            /\ bills' = bills]_vars

\* a request with the category "snacks" was refused for its category while
\* another request stored its bill
C12_SnacksRefused ==
    \E s, o \in Slots :
        /\ Done(s) /\ req[s].a.category = "snacks"
        /\ req[s].resp.code = 400 /\ req[s].resp.detail = "category_not_allowed"
        /\ ManualStored(o)
        /\ \A r \in bills : r.category /= "snacks"

\* the amount column of the row manual_bill stored for the request of slot s
StoredAmount(s) == get_bill_by_id(bills, req[s].a.bill_id).amount

(***************************************************************************)
(* C13: a manual_bill amount written with a "," among its digits, with a   *)
(* leading yen sign, with "RMB" before or after it, or between blanks is   *)
(* treated as the bare literal is: refused with 400 when the bare literal  *)
(* is refused, and otherwise accepted and stored with the amount the bare  *)
(* literal normalizes to.                                                  *)
(***************************************************************************)
C13_MarkersIgnored ==
    \A s \in Slots : \A ip \in IntParts, fp \in FracParts, d \in Markers :
        ManualAmountIs(req[s], Decorate(Bare(ip, fp), d)) =>
            LET bare == StrAmount(Bare(ip, fp))
            IN  IF NormalizeAmountFails(bare)
                THEN Done(s) /\ req[s].resp.code = 400 /\ bills = {}
                ELSE /\ req[s].pc = "save" =>
                            req[s].l.bill_data.amount = normalize_amount(bare)
                     /\ Done(s) =>
                            /\ ManualStored(s)
                            /\ StoredAmount(s) = normalize_amount(bare)

\* the amount "1,234.5" was stored as 1234.50
C13_SeparatedAmountStored ==
    \E s \in Slots :
        /\ ManualAmountIs(req[s], <<"1", ",", "2", "3", "4", ".", "5">>)
        /\ ManualStored(s)
        /\ StoredAmount(s) = FinAmount(123450)

\* hundredths of a value of th thousandths rounded half up
HalfUp(th) == (th + 5) \div 10

(***************************************************************************)
(* C14: every accepted manual_bill amount is stored rounded half up to two *)
(* decimals: a bare literal of th thousandths is stored as (th + 5) div 10 *)
(* hundredths.                                                             *)
(***************************************************************************)
C14_RoundsHalfUp ==
    \A s \in Slots : \A ip \in IntParts, fp \in FracParts :
        (ManualAmountIs(req[s], Bare(ip, fp)) /\ ManualStored(s)) =>
            StoredAmount(s) = FinAmount(HalfUp(Thousandths(ip, fp)))

(***************************************************************************)
(* C15: when the parser returns only {"raw": ...}, the rest of the upload  *)
(* handler stores no bill and does not answer with status ok.              *)
(***************************************************************************)
C15_RawOnlyStoresNothing ==
    [][\A s \in Slots :
         UploadParseReturns(s, RawOnly) =>
            /\ bills' = bills
            /\ req'[s].resp.status /= "ok"]_vars

(***************************************************************************)
(* SpecUpload: NumReq upload requests, one per slot, in every interleaving *)
(* of their steps.  The caller presents the hardcoded token or a token no  *)
(* user holds; the parser raises, or returns a full result, a result whose *)
(* amount is null, or {"raw": ...}.                                        *)
(***************************************************************************)
UploadRaceInputs ==
    { UploadBase,
      [UploadBase EXCEPT !.token = 1],
      [UploadBase EXCEPT !.bill_id = ""],
      UploadText("shoes 9.5"),
      UploadText("") }

UploadRaceResults ==
    {ParsedBase, RawOnly, [ParsedBase EXCEPT !.amount = NullAmountIn]}

NextUpload ==
    \/ \E s \in Slots, u \in UploadRaceInputs :
           Fresh(s) /\ UploadStart(s, u.op, u.token, u.bill_id, u.text, u.filename)
    \/ \E s \in Slots : UploadParseRaises(s)
    \/ \E s \in Slots, parsed \in UploadRaceResults : UploadParseReturns(s, parsed)

SpecUpload == Init /\ [][NextUpload]_vars

\* the keys of the response body: a response with status "ok" carries the
\* result, one with status "error" the message, an HTTPException the detail
BodyKeys(resp) ==
    CASE resp.status = "ok" -> {"status", "result"}
      [] resp.status = "error" -> {"status", "message"}
      [] OTHER -> {"detail"}

\* the HTTP status, the keys of the body and the body's status
Shape(resp) == <<resp.code, BodyKeys(resp), resp.status>>

\* the upload request of slot s was answered after its parser call raised
ParserFailed(s) ==
    Done(s) /\ req[s].op \in UploadOps /\ req[s].resp.detail = "parser_failed"

\* the upload request of slot s was answered after the amount of the parsed
\* fields was refused
FieldsRejected(s) ==
    Done(s) /\ req[s].op \in UploadOps /\ req[s].resp.detail = "amount_not_a_number"

(***************************************************************************)
(* C16: the answer to an upload request whose parser call failed and the   *)
(* answer to one whose parsed fields were refused never have the same HTTP *)
(* status and the same body shape.                                         *)
(***************************************************************************)
C16_FailureKindsDiffer ==
    \A s, o \in Slots :
        (ParserFailed(s) /\ FieldsRejected(o)) =>
            Shape(req[s].resp) /= Shape(req[o].resp)

(***************************************************************************)
(* SpecFrame: the five bill endpoints, manual_bill, delete_bill and the    *)
(* three upload handlers, after a register and a login, served by one      *)
(* slot.                                                                   *)
(***************************************************************************)
NextFrame ==
    \/ \E s \in FirstSlot :
           RegisterStart(s, AccountA.email, AccountA.password, AccountA.user_id)
    \/ \E s \in FirstSlot : RegisterCheckId(s)
    \/ \E s \in FirstSlot : RegisterInsert(s)
    \/ \E s \in FirstSlot : LoginStart(s, AccountA.email, AccountA.password)
    \/ \E s \in FirstSlot : LoginGenerate(s)
    \/ \E s \in FirstSlot : LoginSave(s)
    \/ \E s \in FirstSlot, a \in IngestManualInputs : ManualBillStart(s, a)
    \/ \E s \in FirstSlot : ManualBillSave(s)
    \/ \E s \in FirstSlot, u \in UploadInputs :
           UploadStart(s, u.op, u.token, u.bill_id, u.text, u.filename)
    \/ \E s \in FirstSlot : UploadParseRaises(s)
    \/ \E s \in FirstSlot, parsed \in UploadRaceResults : UploadParseReturns(s, parsed)
    \/ \E s \in FirstSlot, token \in TokenInputs :
           DeleteBillStart(s, token, ManualBase.bill_id)
    \/ \E s \in FirstSlot : DeleteBillGet(s)
    \/ \E s \in FirstSlot : DeleteBillDelete(s)

SpecFrame == Init /\ [][NextFrame]_vars

\* the endpoints that read or write bills
BillOps == {"manual_bill", "delete_bill"} \cup UploadOps

\* the statuses of a validation, an auth and an ownership failure
RefusalCodes == {400, 401, 403}

(***************************************************************************)
(* C17: a request to manual_bill, delete_bill or an upload endpoint that   *)
(* is answered 400, 401 or 403 leaves the bills table and the users table  *)
(* as they were: the step that answers so changes neither table, and no    *)
(* step of such a request before its answer does.                          *)
(***************************************************************************)
C17_RefusalsWriteNothing ==
    [][\A s \in Slots :
         (/\ req'[s] /= req[s]
          /\ req'[s].op \in BillOps
          /\ \/ req'[s].pc /= "done"
             \/ req'[s].resp.code \in RefusalCodes) =>
            /\ bills' = bills
            /\ users' = users]_vars

\* a delete_bill request was answered 403 and the bill and the registered
\* user are still stored
C17_RefusedWithTablesFilled ==
    \E s \in Slots :
        /\ req[s].op = "delete_bill" /\ Done(s) /\ req[s].resp.code = 403
        /\ BillExists(bills, req[s].a.bill_id)
        /\ users /= {}

\* the email of the register request r, or the user_id it supplies, is that
\* of a user of table
Taken(table, r) ==
    \/ EmailTaken(table, r.a.email)
    \/ TruthyStr(r.a.user_id) /\ UserIdTaken(table, r.a.user_id)

\* the step answers the register request of slot s
RegisterAnswers(s) ==
    req'[s] /= req[s] /\ req'[s].op = "register" /\ req'[s].pc = "done"

\* no two users share an email or a user_id
UsersUnique ==
    \A u, v \in users : (u.email = v.email \/ u.user_id = v.user_id) => u = v

(***************************************************************************)
(* C18: no two users share an email or a user_id, and a register request   *)
(* that is answered while its email or its supplied user_id is taken is    *)
(* answered 400 and adds no user, also when register requests run          *)
(* concurrently (SpecLoginRace).                                           *)
(***************************************************************************)
C18_DuplicateRegister400 ==
    /\ []UsersUnique
    /\ [][\A s \in Slots :
            (RegisterAnswers(s) /\ Taken(users, req'[s])) =>
                /\ req'[s].resp.code = 400
                /\ users' = users]_vars

(***************************************************************************)
(* src/bills/db.py: delete_user, which no endpoint calls: a call made on   *)
(* the database beside the requests.                                       *)
(***************************************************************************)
\* a deletion that takes the user's bills along
DeleteUser_Cascades(user_id) ==
    /\ DeleteUserRowcount(users, user_id) > 0
    /\ users' = delete_user(users, user_id)
    /\ bills' = {b \in bills : b.user_id /= user_id}
    /\ UNCHANGED <<now, ntok, nuuid, nclock, tmpfiles, req>>

\* delete_user(user_id) returning True
DeleteUser(user_id) ==
    /\ DeleteUserRowcount(users, user_id) > 0
    /\ users' = delete_user(users, user_id)
    /\ UNCHANGED <<bills, now, ntok, nuuid, nclock, tmpfiles, req>>

(***************************************************************************)
(* SpecDeleteUser: register and manual_bill requests served by one slot,   *)
(* and delete_user calls at any moment.                                    *)
(***************************************************************************)
DeleteUserManualInputs ==
    { ManualBase,
      [ManualBase EXCEPT !.user_id = HardcodedUserId],
      [ManualBase EXCEPT !.bill_id = "b2"] }

NextDeleteUser ==
    \/ \E s \in FirstSlot, r \in Accounts :
           RegisterStart(s, r.email, r.password, r.user_id)
    \/ \E s \in FirstSlot : RegisterCheckId(s)
    \/ \E s \in FirstSlot : RegisterInsert(s)
    \/ \E s \in FirstSlot, a \in DeleteUserManualInputs : ManualBillStart(s, a)
    \/ \E s \in FirstSlot : ManualBillSave(s)
    \/ \E r \in Accounts : DeleteUser(r.user_id)

SpecDeleteUser == Init /\ [][NextDeleteUser]_vars

(***************************************************************************)
(* C19: a step that deletes the user row of user_id leaves every other     *)
(* user row and the whole bills table as they were, and get_bill_by_id     *)
(* still returns each bill of that user, unchanged.                        *)
(***************************************************************************)
C19_DeleteUserKeepsBills ==
    [][\A r \in Accounts :
         (UserIdTaken(users, r.user_id) /\ ~UserIdTaken(users', r.user_id)) =>
            /\ users' = {u \in users : u.user_id /= r.user_id}
            /\ bills' = bills
            /\ \A b \in bills :
                  b.user_id = r.user_id =>
                     /\ BillExists(bills', b.bill_id)
                     /\ get_bill_by_id(bills', b.bill_id) = b]_vars

\* user u1 registered and was deleted, and a bill of u1 is still returned
C19_OrphanedBillReturned ==
    \E s \in Slots :
        /\ req[s].op = "register" /\ Done(s) /\ req[s].resp.status = "ok"
        /\ req[s].a.user_id = AccountA.user_id
        /\ ~UserIdTaken(users, AccountA.user_id)
        /\ \E b \in bills :
              /\ b.user_id = AccountA.user_id
              /\ get_bill_by_id(bills, b.bill_id) = b

(***************************************************************************)
(* SpecLiteral: from the empty tables, a register and logins on the first  *)
(* slot, verify_token requests on every slot, while time passes beyond the *)
(* lifetime of a token.                                                    *)
(***************************************************************************)
NextLiteral ==
    \/ \E s \in FirstSlot :
           RegisterStart(s, AccountA.email, AccountA.password, AccountA.user_id)
    \/ \E s \in FirstSlot : RegisterCheckId(s)
    \/ \E s \in FirstSlot : RegisterInsert(s)
    \/ \E s \in FirstSlot : LoginStart(s, AccountA.email, AccountA.password)
    \/ \E s \in FirstSlot : LoginGenerate(s)
    \/ \E s \in FirstSlot : LoginSave(s)
    \/ \E s \in Slots, token \in TokenInputs : VerifyTokenEndpoint(s, token)
    \/ \E d \in AuthClockSteps : ClockMoves(d)

SpecLiteral == Init /\ [][NextLiteral]_vars

\* the verify_token request of slot s carried token and is answered
Verified(s, token) ==
    req[s].op = "verify_token" /\ Done(s) /\ req[s].a.token = token

(***************************************************************************)
(* C20: at every time and whatever the users table holds, verify_token     *)
(* called with the hardcoded literal returns the identity with user_id     *)
(* "token", as it does on the empty table, and every verify_token request  *)
(* carrying the literal is answered valid.                                 *)
(***************************************************************************)
C20_LiteralAlwaysAccepted ==
    /\ [](/\ verify_token(users, HARDCODED_TOKEN, now) = HardcodedUserId
          /\ verify_token({}, HARDCODED_TOKEN, now) = HardcodedUserId)
    /\ [][\A s \in Slots :
            (req'[s] /= req[s] /\ req'[s].op = "verify_token"
                /\ req'[s].a.token = HARDCODED_TOKEN) =>
                req'[s].resp.valid]_vars

\* the token a login stored has expired and was answered invalid, and the
\* literal was answered valid
C20_LiteralOutlivesTokens ==
    \E s, o \in Slots :
        /\ Verified(s, HARDCODED_TOKEN) /\ req[s].resp.valid
        /\ Verified(o, 1) /\ ~req[o].resp.valid
        /\ TokenRows(users, 1) /= {}
        /\ StoredTokenExpired(AccountA.user_id)

(***************************************************************************)
(* src/bills/db.py: update_user_password and update_user_email, which no   *)
(* endpoint calls: calls made on the database beside the requests.         *)
(***************************************************************************)
\* update_user_password(user_id, new_password) returning True
UpdateUserPassword(user_id, new_password) ==
    /\ UserIdTaken(users, user_id)
    /\ users' = update_user_password(users, user_id, new_password)
    /\ UNCHANGED <<bills, now, ntok, nuuid, nclock, tmpfiles, req>>

\* update_user_email(user_id, new_email) returning True
UpdateUserEmail(user_id, new_email) ==
    /\ UserIdTaken(users, user_id)
    /\ ~UpdateEmailValueError(users, user_id, new_email)
    /\ users' = update_user_email(users, user_id, new_email)
    /\ UNCHANGED <<bills, now, ntok, nuuid, nclock, tmpfiles, req>>

(***************************************************************************)
(* SpecAccount: the life of two accounts: register and login requests,     *)
(* manual_bill and delete_bill requests, served by one slot, the calls     *)
(* update_user_password, update_user_email and delete_user at any moment,  *)
(* while time passes.                                                      *)
(***************************************************************************)
NewPasswords == {"q"}
NewEmails == {"c@x"}

NextAccount ==
    \/ \E s \in FirstSlot, r \in Accounts :
           RegisterStart(s, r.email, r.password, r.user_id)
    \/ \E s \in FirstSlot : RegisterCheckId(s)
    \/ \E s \in FirstSlot : RegisterInsert(s)
    \/ \E s \in FirstSlot, c \in DeleteLogins : LoginStart(s, c.email, c.password)
    \/ \E s \in FirstSlot : LoginGenerate(s)
    \/ \E s \in FirstSlot : LoginSave(s)
    \/ \E s \in FirstSlot : ManualBillStart(s, ManualBase)
    \/ \E s \in FirstSlot : ManualBillSave(s)
    \/ \E s \in FirstSlot, token \in TokenInputs :
           DeleteBillStart(s, token, ManualBase.bill_id)
    \/ \E s \in FirstSlot : DeleteBillGet(s)
    \/ \E s \in FirstSlot : DeleteBillDelete(s)
    \/ \E r \in Accounts, p \in NewPasswords : UpdateUserPassword(r.user_id, p)
    \/ \E r \in Accounts, e \in NewEmails : UpdateUserEmail(r.user_id, e)
    \/ \E r \in Accounts : DeleteUser(r.user_id)
    \/ \E d \in AuthClockSteps : ClockMoves(d)

SpecAccount == Init /\ [][NextAccount]_vars

\* the step is the save_user_token of a login of user_id
NewLoginOf(user_id) ==
    \E s \in Slots :
        /\ req[s].op = "login" /\ req[s].pc = "save" /\ req'[s].pc = "done"
        /\ req[s].l.user_id = user_id

\* the tokens login can have issued
LoginTokens == 1..MaxTokens

(***************************************************************************)
(* C21: a token verify_token accepts for a user is accepted for that user  *)
(* after every step that is not a new login of the user, as long as the    *)
(* time has not passed the token's token_expires_at.                       *)
(***************************************************************************)
C21_TokenOutlivesOtherOperations ==
    [][\A token \in LoginTokens :
         LET u == verify_token(users, token, now)
         IN  (/\ u /= NULL
              /\ ~NewLoginOf(u)
              /\ now' <= ParseTimestamp(VerifiedExpiry(users, token))) =>
                verify_token(users', token, now') = u]_vars

\* the step takes a delete_bill request into slot s
DeleteArrives(s) ==
    Free(s) /\ req'[s] /= req[s] /\ req'[s].op = "delete_bill"

(***************************************************************************)
(* C22: delete_bill checks the token, then the bill's existence, then its  *)
(* owner.  A request whose token verify_token rejects is answered 401      *)
(* whatever its bill_id, and otherwise goes on to get_bill_by_id; there a  *)
(* bill_id that is not stored is answered 404, a bill of another user 403, *)
(* and otherwise the request goes on to delete_bill.  The checks change no *)
(* table, and a row leaves the bills table only in the delete_bill step of *)
(* a request that passed them.                                             *)
(***************************************************************************)
C22_TokenThenExistenceThenOwner ==
    /\ [][\A s \in Slots :
            DeleteArrives(s) =>
                /\ IF verify_token(users, req'[s].a.token, now) = NULL
                   THEN req'[s].pc = "done" /\ req'[s].resp.code = 401
                   ELSE req'[s].pc = "get"
                /\ store' = store]_vars
    /\ [][\A s \in Slots :
            DeleteStep(s, "get") =>
                /\ IF ~BillExists(bills, req[s].a.bill_id)
                   THEN req'[s].pc = "done" /\ req'[s].resp.code = 404
                   ELSE IF get_bill_by_id(bills, req[s].a.bill_id).user_id /= req[s].l.user_id
                   THEN req'[s].pc = "done" /\ req'[s].resp.code = 403
                   ELSE req'[s].pc = "delete"
                /\ store' = store]_vars
    /\ [][(\E b \in bills : b \notin bills') =>
             \E s \in Slots : DeleteStep(s, "delete")]_vars

\* with nothing stored a delete_bill request with the literal token was
\* answered 404; later, with the bill stored, one with a token no user holds
\* was answered 401
C22_NotFoundThenUnauthorized ==
    /\ req[2].op = "delete_bill" /\ Done(2) /\ req[2].resp.code = 404
    /\ req[2].a.token = HARDCODED_TOKEN
    /\ req[1].op = "delete_bill" /\ Done(1) /\ req[1].resp.code = 401
    /\ BillExists(bills, req[1].a.bill_id)

\* every token a caller of SpecToken can present
AnyToken == TokenInputs \cup {StoredToken}

(***************************************************************************)
(* C23: the step that answers a verify_token request, whatever its token,  *)
(* leaves the users table and the bills table as they were, and so         *)
(* verify_token gives for every token what it gave before the step.        *)
(***************************************************************************)
C23_VerifyTokenReadsOnly ==
    [][\A s \in Slots :
         (req'[s] /= req[s] /\ req'[s].op = "verify_token") =>
            /\ users' = users
            /\ bills' = bills
            /\ \A token \in AnyToken :
                  verify_token(users', token, now') = verify_token(users, token, now)]_vars

\* one stored token was verified twice and accepted both times
C23_AcceptedTwice ==
    \E token \in AnyToken \ {HARDCODED_TOKEN} :
        /\ Verified(1, token) /\ req[1].resp.valid
        /\ Verified(2, token) /\ req[2].resp.valid
        /\ TokenRows(users, token) /= {}

\* the step takes an upload request into slot s
UploadArrives(s) ==
    Free(s) /\ req'[s] /= req[s] /\ req'[s].op \in UploadOps

(***************************************************************************)
(* C24: an upload request whose token verify_token rejects is answered 401 *)
(* by the step that takes it: the handler never stands at its parser call, *)
(* and the step writes no temp file and stores no bill.  A handler that    *)
(* stands at its parser call acts for a user verify_token returned.        *)
(***************************************************************************)
C24_TokenCheckedFirst ==
    /\ [][\A s \in Slots :
            (UploadArrives(s) /\ verify_token(users, req'[s].a.token, now) = NULL) =>
                /\ req'[s].pc = "done" /\ req'[s].resp.code = 401
                /\ tmpfiles' = tmpfiles
                /\ bills' = bills]_vars
    /\ [](\A s \in Slots :
            (req[s].op \in UploadOps /\ req[s].pc = "parse") => req[s].l.user_id /= NULL)

\* a file upload with a token no user holds was answered 401, and no temp
\* file and no bill exist
C24_RefusedBeforeTheFile ==
    \E s \in Slots :
        /\ req[s].op \in FileUploadOps /\ Done(s) /\ req[s].resp.code = 401
        /\ TokenRows(users, req[s].a.token) = {}
        /\ req[s].a.filename \notin tmpfiles
        /\ bills = {}

\* the step is the rest of the upload handler of slot s after its parser
\* call
UploadStep(s) ==
    req[s].op \in UploadOps /\ req[s].pc = "parse" /\ req'[s] /= req[s]

(***************************************************************************)
(* C25: an upload handler that reaches its parser call keeps the user_id   *)
(* verify_token returned for the request's token, and when it stores a     *)
(* bill it stores one row, with that user_id, with the bill_id of the      *)
(* request, and with the default category when the parse result has no     *)
(* category.                                                               *)
(***************************************************************************)
C25_UploadStoresForTheCaller ==
    /\ [][\A s \in Slots :
            (UploadArrives(s) /\ req'[s].pc = "parse") =>
                req'[s].l.user_id = verify_token(users, req'[s].a.token, now)]_vars
    /\ [][\A s \in Slots :
            (UploadStep(s) /\ bills' /= bills) =>
                \E row \in bills' :
                    /\ row \notin bills
                    /\ bills' = bills \cup {row}
                    /\ row.user_id = req[s].l.user_id
                    /\ row.bill_id = req[s].a.bill_id
                    /\ \A parsed \in ParseResults :
                          (UploadParseReturns(s, parsed) /\ parsed.category = MISSING) =>
                              row.category = DefaultCategory]_vars

\* an upload with the token of a login stored the bill for the logged-in
\* user under the default category, the parser having given every field but
\* the category
C25_DefaultCategoryStored ==
    \E s \in Slots :
        /\ req[s].op \in UploadOps /\ Done(s) /\ req[s].resp.status = "ok"
        /\ req[s].a.token /= HARDCODED_TOKEN
        /\ \E row \in BillRows(bills, req[s].a.bill_id) :
              /\ row.user_id = AccountA.user_id
              /\ TokenOf(req[s].a.token, row.user_id)
              /\ row.category = DefaultCategory
              /\ row.description = ParsedBase.description

\* what a reader finds under a key of the result: null for a key the result
\* lacks
ReadKey(x) == IF x = MISSING THEN NULL ELSE x
ReadDate(x) == IF x = MissingText THEN NullText ELSE x

(***************************************************************************)
(* C26: when an upload request is answered with status ok, the category,   *)
(* amount, date, description and nw_type of the response's result are      *)
(* those of the row stored for the request's bill_id (a key the result     *)
(* lacks reads as null, the amount text is read as a number).              *)
(***************************************************************************)
C26_ResultMirrorsStoredRow ==
    [][\A s \in Slots :
         (UploadStep(s) /\ req'[s].resp.status = "ok") =>
            /\ BillExists(bills', req[s].a.bill_id)
            /\ LET row == get_bill_by_id(bills', req[s].a.bill_id)
                   result == req'[s].resp.result
               IN  /\ ReadKey(result.category) = row.category
                   /\ Round2(ParseFloat(result.amount)) = row.amount
                   /\ ReadDate(result.date) = row.date
                   /\ ReadKey(result.description) = row.description
                   /\ ReadKey(result.nw_type) = row.nw_type]_vars

(***************************************************************************)
(* C27: a stored bill row stays in the bills table, with every field as it *)
(* was, through every step but the delete_bill step of a delete_bill       *)
(* request for its bill_id.                                                *)
(***************************************************************************)
C27_BillsInsertOnly ==
    [][\A b \in bills :
         \/ b \in bills'
         \/ \E s \in Slots : DeleteStep(s, "delete") /\ req[s].a.bill_id = b.bill_id]_vars

\* a second manual_bill for a stored bill_id, with another amount, was
\* refused, and the row holds the amount it was stored with
C27_ResubmissionLeftTheRow ==
    \E s \in Slots :
        /\ ManualConflict(s)
        /\ BillExists(bills, req[s].a.bill_id)
        /\ get_bill_by_id(bills, req[s].a.bill_id).amount
               /= normalize_amount(req[s].a.amount)

(***************************************************************************)
(* The upload handlers at the grain of store connections.  verify_token    *)
(* and save_bill open a connection with get_db_connection(), run their     *)
(* statements inside try, and close the connection in finally, which runs  *)
(* on return and on raise alike (src/bills/db.py).  Every other store      *)
(* function of db.py has the same try/finally shape.                       *)
(***************************************************************************)
\* the handler is called; verify_token returns on the literal before it
\* opens a connection, and opens one otherwise
ConnUploadStart(s, op, token, bill_id, text, filename) ==
    LET a == [NoArgs EXCEPT !.token = token, !.bill_id = bill_id,
                            !.text = text, !.filename = filename]
    IN  /\ Free(s)
        /\ op \in UploadOps
        /\ IF token = HARDCODED_TOKEN
           THEN Begin(s, op, "verified", a, [NoLocals EXCEPT !.user_id = HardcodedUserId])
           ELSE Begin(s, op, "vt_conn", a, [NoLocals EXCEPT !.conns = 1])
        /\ UNCHANGED <<bills, users, now, ntok, nuuid, nclock, tmpfiles>>

\* verify_token inside try: the SELECT, the expiry check and the return
\* statement; finally is still to run
ConnVerifyToken(s) ==
    /\ req[s].op \in UploadOps /\ req[s].pc = "vt_conn"
    /\ Goto(s, "vt_finally",
            [req[s].l EXCEPT !.user_id = verify_token(users, req[s].a.token, now)])
    /\ UNCHANGED <<bills, users, now, ntok, nuuid, nclock, tmpfiles>>

\* verify_token's finally: conn.close()
ConnVerifyTokenFinally(s) ==
    /\ req[s].op \in UploadOps /\ req[s].pc = "vt_finally"
    /\ Goto(s, "verified", [req[s].l EXCEPT !.conns = req[s].l.conns - 1])
    /\ UNCHANGED <<bills, users, now, ntok, nuuid, nclock, tmpfiles>>

\* the handler from verify_token's return to the parser call
ConnUploadVerified(s) ==
    LET r == req[s]
    IN  /\ r.op \in UploadOps /\ r.pc = "verified"
        /\ IF r.l.user_id = NULL
           THEN /\ Answer(s, HttpError(401, "token_invalid"))
                /\ UNCHANGED tmpfiles
           ELSE IF r.op = "upload_llm" /\ r.a.text = ""
           THEN /\ Answer(s, HttpError(400, "text_empty"))
                /\ UNCHANGED tmpfiles
           ELSE /\ Goto(s, "parse", [r.l EXCEPT !.day = DateStr(now)])
                /\ tmpfiles' = IF r.op \in FileUploadOps
                               THEN tmpfiles \cup {r.a.filename} ELSE tmpfiles
        /\ UNCHANGED <<bills, users, now, ntok, nuuid, nclock>>

\* the parser call returns parsed: the handler up to save_bill's
\* get_db_connection()
ConnParseReturns(s, parsed) ==
    LET r == req[s]
    IN  /\ r.op \in UploadOps /\ r.pc = "parse"
        /\ ~(r.op = "upload_llm" /\ r.a.text = " ")
        /\ IF r.a.bill_id = ""
           THEN Answer(s, HttpError(400, "bill_id_empty"))
           ELSE IF UploadAmountFails(parsed)
           THEN Answer(s, ErrorBody("amount_not_a_number"))
           ELSE Goto(s, "sb_conn",
                     [r.l EXCEPT !.bill_data = UploadBillData(parsed, r.l.user_id,
                                                              r.a.bill_id, r.l.day),
                                 !.parsed_json = parsed,
                                 !.conns = r.l.conns + 1])
        /\ UNCHANGED <<bills, users, now, ntok, nuuid, nclock, tmpfiles>>

\* save_bill inside try: ValueError or IntegrityError raised, or the INSERT
\* and the commit done; finally is still to run
ConnSaveBill(s) ==
    /\ req[s].op \in UploadOps /\ req[s].pc = "sb_conn"
    /\ IF \/ SaveBillValueError(req[s].l.bill_data)
          \/ SaveBillIntegrityError(bills, req[s].l.bill_data)
       THEN /\ Goto(s, "sb_raised", req[s].l)
            /\ UNCHANGED bills
       ELSE /\ bills' = save_bill(bills, req[s].l.bill_data, now)
            /\ Goto(s, "sb_returned", req[s].l)
    /\ UNCHANGED <<users, now, ntok, nuuid, nclock, tmpfiles>>

\* a save_bill that closes its connection after the commit only
ConnSaveBillFinally_OnReturnOnly(s) ==
    /\ req[s].op \in UploadOps /\ req[s].pc \in {"sb_raised", "sb_returned"}
    /\ IF req[s].pc = "sb_raised"
       THEN Goto(s, "save_failed", req[s].l)
       ELSE Goto(s, "saved", [req[s].l EXCEPT !.conns = req[s].l.conns - 1])
    /\ UNCHANGED <<bills, users, now, ntok, nuuid, nclock, tmpfiles>>

\* save_bill's finally: conn.close(), on return and on raise
ConnSaveBillFinally(s) ==
    /\ req[s].op \in UploadOps /\ req[s].pc \in {"sb_raised", "sb_returned"}
    /\ Goto(s, IF req[s].pc = "sb_raised" THEN "save_failed" ELSE "saved",
            [req[s].l EXCEPT !.conns = req[s].l.conns - 1])
    /\ UNCHANGED <<bills, users, now, ntok, nuuid, nclock, tmpfiles>>

\* the handler after save_bill: os.remove and the response, or the
\* except Exception branch
ConnUploadRespond(s) ==
    LET r == req[s]
    IN  /\ r.op \in UploadOps /\ r.pc \in {"saved", "save_failed"}
        /\ IF r.pc = "save_failed"
           THEN /\ Answer(s, ErrorBody("unique_bill_id"))
                /\ UNCHANGED tmpfiles
           ELSE IF r.op \in FileUploadOps
           THEN IF r.a.filename \in tmpfiles
                THEN /\ tmpfiles' = tmpfiles \ {r.a.filename}
                     /\ Answer(s, [Ok EXCEPT !.result = UploadResult(r.l.parsed_json)])
                ELSE /\ UNCHANGED tmpfiles
                     /\ Answer(s, ErrorBody("temp_file_not_found"))
           ELSE /\ UNCHANGED tmpfiles
                /\ Answer(s, [Ok EXCEPT !.result = UploadResult(r.l.parsed_json)])
        /\ UNCHANGED <<bills, users, now, ntok, nuuid, nclock>>

(***************************************************************************)
(* SpecConn: NumReq upload requests, one per slot, in every interleaving   *)
(* of their steps, on a database that holds one user with a token.         *)
(***************************************************************************)
ConnInputs ==
    { UploadBase,
      [UploadBase EXCEPT !.token = StoredToken],
      [UploadBase EXCEPT !.token = 1],
      [UploadText("shoes 9.5") EXCEPT !.token = StoredToken],
      [UploadText("") EXCEPT !.token = StoredToken] }

NextConn ==
    \/ \E s \in Slots, u \in ConnInputs :
           Fresh(s) /\ ConnUploadStart(s, u.op, u.token, u.bill_id, u.text, u.filename)
    \/ \E s \in Slots : ConnVerifyToken(s)
    \/ \E s \in Slots : ConnVerifyTokenFinally(s)
    \/ \E s \in Slots : ConnUploadVerified(s)
    \/ \E s \in Slots : UploadParseRaises(s)
    \/ \E s \in Slots, parsed \in UploadRaceResults : ConnParseReturns(s, parsed)
    \/ \E s \in Slots : ConnSaveBill(s)
    \/ \E s \in Slots : ConnSaveBillFinally(s)
    \/ \E s \in Slots : ConnUploadRespond(s)

SpecConn == InitToken /\ [][NextConn]_vars

\* the handler is inside a store function, between its get_db_connection()
\* and its finally
InStoreFunction(s) ==
    req[s].pc \in {"vt_conn", "vt_finally", "sb_conn", "sb_raised", "sb_returned"}

(***************************************************************************)
(* C28: a request holds one open connection while it is inside a store     *)
(* function and none otherwise: none while its parser call is in progress, *)
(* none after save_bill has raised, none when it is answered.              *)
(***************************************************************************)
C28_ConnectionsClosed ==
    \A s \in Slots :
        /\ InStoreFunction(s) => req[s].l.conns = 1
        /\ ~InStoreFunction(s) => req[s].l.conns = 0

\* one upload, with the stored token, has stored its bill and is answered;
\* the other has come out of a save_bill that raised; neither holds a
\* connection
C28_NoneHeldAfterFailedSave ==
    \E s, o \in Slots :
        /\ Done(s) /\ req[s].resp.status = "ok" /\ req[s].a.token = StoredToken
        /\ req[o].pc = "save_failed"
        /\ req[s].l.conns = 0 /\ req[o].l.conns = 0

\* the statuses of a conflict error
UploadConflictCodes == {400, 409}

(***************************************************************************)
(* C29: when the parser of an upload request returns fields the handler    *)
(* accepts and the request's bill_id is stored, the request is answered    *)
(* with a conflict status, not with the status of a success, and the bills *)
(* table is left as it was.                                                *)
(***************************************************************************)
C29_UploadDuplicateIsConflict ==
    [][\A s \in Slots :
         (/\ BillExists(bills, req[s].a.bill_id)
          /\ \E parsed \in UploadRaceResults :
                UploadParseReturns(s, parsed) /\ ~UploadAmountFails(parsed)) =>
            /\ req'[s].resp.code \in UploadConflictCodes
            /\ req'[s].resp.code /= Ok.code
            /\ bills' = bills]_vars

(***************************************************************************)
(* SpecDeleteRace: manual_bill and delete_bill requests for one bill_id on *)
(* NumReq slots, in every interleaving of their store operations.  A slot  *)
(* takes a new request once its last one is answered.  The delete_bill     *)
(* requests carry the hardcoded token or a token no user holds.            *)
(***************************************************************************)
DeleteRaceTokens == {HARDCODED_TOKEN, 1}

NextDeleteRace ==
    \/ \E s \in Slots, a \in DeleteManualInputs : ManualBillStart(s, a)
    \/ \E s \in Slots : ManualBillSave(s)
    \/ \E s \in Slots, token \in DeleteRaceTokens :
           DeleteBillStart(s, token, ManualBase.bill_id)
    \/ \E s \in Slots : DeleteBillGet(s)
    \/ \E s \in Slots : DeleteBillDelete(s)

SpecDeleteRace == Init /\ [][NextDeleteRace]_vars

(***************************************************************************)
(* C30: whatever the interleaving, the delete_bill step of a delete_bill   *)
(* request removes only rows whose user_id is the user the request acts    *)
(* for.                                                                    *)
(***************************************************************************)
C30_DeletesOnlyOwnRows ==
    [][\A s \in Slots :
         DeleteStep(s, "delete") =>
            \A b \in bills : b \notin bills' => b.user_id = req[s].l.user_id]_vars

(***************************************************************************)
(* SpecBypass: register, login, manual_bill and upload requests for the    *)
(* two accounts, and delete_bill requests that carry the hardcoded token,  *)
(* served one at a time by one slot.  AccountB registers with the user_id  *)
(* that verify_token returns for the hardcoded token: create_user takes    *)
(* the user_id the caller sends and refuses it only when it is stored.     *)
(***************************************************************************)
BypassUploads == {[UploadBase EXCEPT !.token = token] : token \in TokenInputs}

NextBypass ==
    \/ \E s \in FirstSlot, r \in Accounts :
           RegisterStart(s, r.email, r.password, r.user_id)
    \/ \E s \in FirstSlot : RegisterCheckId(s)
    \/ \E s \in FirstSlot : RegisterInsert(s)
    \/ \E s \in FirstSlot, c \in DeleteLogins : LoginStart(s, c.email, c.password)
    \/ \E s \in FirstSlot : LoginGenerate(s)
    \/ \E s \in FirstSlot : LoginSave(s)
    \/ \E s \in FirstSlot, a \in DeleteManualInputs : ManualBillStart(s, a)
    \/ \E s \in FirstSlot : ManualBillSave(s)
    \/ \E s \in FirstSlot, u \in BypassUploads :
           UploadStart(s, u.op, u.token, u.bill_id, u.text, u.filename)
    \/ \E s \in FirstSlot : UploadParseRaises(s)
    \/ \E s \in FirstSlot : UploadParseReturns(s, ParsedBase)
    \/ \E s \in FirstSlot : DeleteBillStart(s, HARDCODED_TOKEN, ManualBase.bill_id)
    \/ \E s \in FirstSlot : DeleteBillGet(s)
    \/ \E s \in FirstSlot : DeleteBillDelete(s)

SpecBypass == Init /\ [][NextBypass]_vars

(***************************************************************************)
(* C31: the delete_bill step of a delete_bill request that carries the     *)
(* hardcoded token removes only rows whose user_id is the user_id          *)
(* verify_token returns for that token, and never a row whose user_id is   *)
(* the user_id of a row of the users table: whatever register, login,      *)
(* manual_bill and upload requests came before, the hardcoded token        *)
(* deletes no bill of a registered user.                                   *)
(***************************************************************************)
C31_BypassSparesRegisteredUsers ==
    [][\A s \in Slots :
         (DeleteStep(s, "delete") /\ req[s].a.token = HARDCODED_TOKEN) =>
            \A b \in bills :
                b \notin bills' =>
                    /\ b.user_id = HardcodedUserId
                    /\ b.user_id \notin UserIds]_vars

====
